---------------------------- MODULE Spec2Model ----------------------------
(***************************************************************************)
(* A model of mkch/hashive: the binary codec of internal/impl (varints,    *)
(* fixed-width integers, scalars, arrays, hash-bucketed objects), the      *)
(* buffered byte-seeker, and the hashive package's Write / New / Query.    *)
(*                                                                         *)
(* Representation.  A byte is a number in 0..255, a byte string (a Go      *)
(* string or []byte) is a tuple of bytes, and a 64-bit integer (uint64, or *)
(* int64 in two's complement) is a tuple of 8 bytes, least significant     *)
(* first, so that arithmetic keeps its width.  A Go value of type any is a *)
(* pair <<type, payload>>.  An error is a tuple whose first element names  *)
(* it; NoErr is Go's nil error.                                            *)
(***************************************************************************)
EXTENDS Integers, Sequences, FiniteSets, TLC

VARIABLES value, file, h, res, op, nops

vars == <<value, file, h, res, op, nops>>

-----------------------------------------------------------------------------
(* Bytes and 64-bit words *)

Byte == 0..255

Min(a, b) == IF a <= b THEN a ELSE b

Max(a, b) == IF a >= b THEN a ELSE b

\* uint64(n) for a small natural number n (n < 2^31).
U64(n) ==
    << n % 256, (n \div 256) % 256, (n \div 65536) % 256, (n \div 16777216) % 256,
       0, 0, 0, 0 >>

\* bitwise complement: ^w
Not64(w) ==
    << 255 - w[1], 255 - w[2], 255 - w[3], 255 - w[4],
       255 - w[5], 255 - w[6], 255 - w[7], 255 - w[8] >>

\* w << 1
Shl1(w) ==
    << (w[1] * 2) % 256,
       ((w[2] * 2) % 256) + (w[1] \div 128),
       ((w[3] * 2) % 256) + (w[2] \div 128),
       ((w[4] * 2) % 256) + (w[3] \div 128),
       ((w[5] * 2) % 256) + (w[4] \div 128),
       ((w[6] * 2) % 256) + (w[5] \div 128),
       ((w[7] * 2) % 256) + (w[6] \div 128),
       ((w[8] * 2) % 256) + (w[7] \div 128) >>

\* w >> 1 (logical)
Shr1(w) ==
    << (w[1] \div 2) + (w[2] % 2) * 128,
       (w[2] \div 2) + (w[3] % 2) * 128,
       (w[3] \div 2) + (w[4] % 2) * 128,
       (w[4] \div 2) + (w[5] % 2) * 128,
       (w[5] \div 2) + (w[6] % 2) * 128,
       (w[6] \div 2) + (w[7] % 2) * 128,
       (w[7] \div 2) + (w[8] % 2) * 128,
       (w[8] \div 2) >>

RECURSIVE ByteBits(_, _, _, _)
\* Bitwise combination of the low k bits of bytes a and b: kind is "or" or "xor".
ByteBits(kind, a, b, k) ==
    IF k = 0 THEN 0
    ELSE LET x == a % 2
             y == b % 2
             z == IF kind = "or" THEN (IF x + y > 0 THEN 1 ELSE 0) ELSE (x + y) % 2
         IN  z + 2 * ByteBits(kind, a \div 2, b \div 2, k - 1)

ByteOr(a, b) == ByteBits("or", a, b, 8)

ByteXor(a, b) == ByteBits("xor", a, b, 8)

\* a | b
Or64(a, b) ==
    << ByteOr(a[1], b[1]), ByteOr(a[2], b[2]), ByteOr(a[3], b[3]), ByteOr(a[4], b[4]),
       ByteOr(a[5], b[5]), ByteOr(a[6], b[6]), ByteOr(a[7], b[7]), ByteOr(a[8], b[8]) >>

RECURSIVE AddCarry(_, _, _, _)
\* Bytes i..8 of a + b + carry, wrapping at 2^64.
AddCarry(a, b, i, carry) ==
    IF i > 8 THEN << >>
    ELSE LET s == a[i] + b[i] + carry
         IN  << s % 256 >> \o AddCarry(a, b, i + 1, s \div 256)

\* a + b mod 2^64
Add64(a, b) == AddCarry(a, b, 1, 0)

RECURSIVE MulCarry(_, _, _, _)
\* Bytes i..8 of w * c + carry for a small factor c, wrapping at 2^64.
MulCarry(w, c, i, carry) ==
    IF i > 8 THEN << >>
    ELSE LET s == w[i] * c + carry
         IN  << s % 256 >> \o MulCarry(w, c, i + 1, s \div 256)

\* w * c mod 2^64, c < 2^16
MulSmall(w, c) == MulCarry(w, c, 1, 0)

RECURSIVE ModFold(_, _, _, _)
ModFold(w, m, i, acc) ==
    IF i = 0 THEN acc ELSE ModFold(w, m, i - 1, (acc * 256 + w[i]) % m)

\* w % m for a small modulus m (m < 2^23), w unsigned
Mod64(w, m) == ModFold(w, m, 8, 0)

\* The sign bit of an int64.
IsNeg(w) == w[8] >= 128

RECURSIVE ULessFrom(_, _, _)
ULessFrom(a, b, i) ==
    IF i = 0 THEN FALSE
    ELSE IF a[i] # b[i] THEN a[i] < b[i]
    ELSE ULessFrom(a, b, i - 1)

\* a < b as uint64
ULess(a, b) == ULessFrom(a, b, 8)

\* a < b as int64
SLess(a, b) ==
    IF IsNeg(a) # IsNeg(b) THEN IsNeg(a) ELSE ULess(a, b)

\* Whether a non-negative word is small enough to be a number of the model.
FitsNat(w) == w[5] = 0 /\ w[6] = 0 /\ w[7] = 0 /\ w[8] = 0 /\ w[4] < 64

\* The number a small word stands for (FitsNat(w)).
ToNat(w) == w[1] + 256 * w[2] + 65536 * w[3] + 16777216 * w[4]

\* The first n bytes of w, zero-extended to a word.
ZeroExtend(bytes) ==
    << IF Len(bytes) >= 1 THEN bytes[1] ELSE 0,
       IF Len(bytes) >= 2 THEN bytes[2] ELSE 0,
       IF Len(bytes) >= 3 THEN bytes[3] ELSE 0,
       IF Len(bytes) >= 4 THEN bytes[4] ELSE 0,
       IF Len(bytes) >= 5 THEN bytes[5] ELSE 0,
       IF Len(bytes) >= 6 THEN bytes[6] ELSE 0,
       IF Len(bytes) >= 7 THEN bytes[7] ELSE 0,
       IF Len(bytes) >= 8 THEN bytes[8] ELSE 0 >>

\* The bytes of a two's complement integer of any width, sign-extended to a word.
SignExtend(bytes) ==
    LET fill == IF bytes[Len(bytes)] >= 128 THEN 255 ELSE 0
    IN  << bytes[1],
           IF Len(bytes) >= 2 THEN bytes[2] ELSE fill,
           IF Len(bytes) >= 3 THEN bytes[3] ELSE fill,
           IF Len(bytes) >= 4 THEN bytes[4] ELSE fill,
           IF Len(bytes) >= 5 THEN bytes[5] ELSE fill,
           IF Len(bytes) >= 6 THEN bytes[6] ELSE fill,
           IF Len(bytes) >= 7 THEN bytes[7] ELSE fill,
           IF Len(bytes) >= 8 THEN bytes[8] ELSE fill >>

\* int64(n) for a small integer n, negative or not (|n| < 2^31).
I64(n) == IF n >= 0 THEN U64(n) ELSE Not64(U64(-n - 1))

-----------------------------------------------------------------------------
(* Errors *)

NoErr == << "nil" >>

EOF == << "EOF" >>

ErrUnexpectedEOF == << "unexpected EOF" >>

ErrNotFound == << "not found" >>

\* A run-time panic of the Go program (slice bounds out of range, ...).
Panic == << "panic" >>

\* errors.New / fmt.Errorf without %w: an error of no special type.
Errorf(msg) == << "error", msg >>

\* fmt.Errorf("... %w", &TypeError{t})
WrappedTypeError(t) == << "TypeError", t >>

BoundsError(length, index) == << "BoundsError", length, index >>

\* errors.As(err, &typeErr) for typeErr *TypeError
IsTypeError(err) == err[1] = "TypeError"

-----------------------------------------------------------------------------
(* Type markers *)

typeNull == 0

typeInt == 1

typeUint == 2

typeBool == 3

typeString == 4

typeFloat == 5

typeBinary == 6

typeGob == 7

typeArray == 8

typeObject == 9

\* typeMarker.Type: t & 0x0F
MarkerType(tb) == tb % 16

\* typeMarker.OffsetSize: t >> 4
MarkerOffsetSize(tb) == tb \div 16

\* typeMarker(t) | typeMarker(size<<4), size<<4 computed in a byte
newTypeMarker(t, size) == ByteOr(t, (size * 16) % 256)

-----------------------------------------------------------------------------
(* Fixed-width and variable-length unsigned integers: the write side *)

\* n <= 0xFF..FF (k bytes of FF), n a uint64
FitsBytes(n, k) == \A i \in (k + 1)..8 : n[i] = 0

\* fixedUintSize returns the minimum byte size to store n (a uint64).
fixedUintSize(n) ==
    IF ~FitsBytes(n, 7) THEN 8
    ELSE IF ~FitsBytes(n, 6) THEN 7
    ELSE IF ~FitsBytes(n, 5) THEN 6
    ELSE IF ~FitsBytes(n, 4) THEN 5
    ELSE IF ~FitsBytes(n, 3) THEN 4
    ELSE IF ~FitsBytes(n, 2) THEN 3
    ELSE IF ~FitsBytes(n, 1) THEN 2
    ELSE 1

\* writeFixedUint: the low size bytes of n, little-endian; n is truncated when
\* it does not fit.  Sizes 3 and 4 go through a 4-byte buffer, sizes 5..8
\* through an 8-byte buffer, and buf[:size] is what is written.
writeFixedUint(n, size) ==
    IF size \in 1..8
    THEN [b |-> SubSeq(n, 1, size), err |-> NoErr]
    ELSE [b |-> << >>, err |-> Errorf("invalid size")]

\* writeUintValue without the cases of 3, 5, 6 and 7 bytes: the widths are
\* 1, 2, 4 and 8.
writeUintValuePow2(n) ==
    IF FitsBytes(n, 1) /\ n[1] <= 127 THEN << n[1] >>
    ELSE IF FitsBytes(n, 1) THEN << 255 >> \o SubSeq(n, 1, 1)
    ELSE IF FitsBytes(n, 2) THEN << 254 >> \o SubSeq(n, 1, 2)
    ELSE IF FitsBytes(n, 4) THEN << 252 >> \o SubSeq(n, 1, 4)
    ELSE << 248 >> \o SubSeq(n, 1, 8)

\* writeUintValue: n <= 127 is the single byte n; otherwise the byte -K
\* (256 - K) and the K low bytes of n, K chosen by the thresholds 0xFF, 0xFFFF, ...
\* (K = 3 writes a 4-byte PutUint32 and keeps 3 bytes, K = 5..7 an 8-byte
\* PutUint64 and keeps K bytes).
writeUintValue(n) ==
    IF FitsBytes(n, 1) /\ n[1] <= 127 THEN << n[1] >>
    ELSE IF FitsBytes(n, 1) THEN << 255 >> \o SubSeq(n, 1, 1)
    ELSE IF FitsBytes(n, 2) THEN << 254 >> \o SubSeq(n, 1, 2)
    ELSE IF FitsBytes(n, 3) THEN << 253 >> \o SubSeq(n, 1, 3)
    ELSE IF FitsBytes(n, 4) THEN << 252 >> \o SubSeq(n, 1, 4)
    ELSE IF FitsBytes(n, 5) THEN << 251 >> \o SubSeq(n, 1, 5)
    ELSE IF FitsBytes(n, 6) THEN << 250 >> \o SubSeq(n, 1, 6)
    ELSE IF FitsBytes(n, 7) THEN << 249 >> \o SubSeq(n, 1, 7)
    ELSE << 248 >> \o SubSeq(n, 1, 8)

\* The complement-flag encoding of a signed integer in an unsigned one.
int2Uint(n) ==
    IF IsNeg(n)
    THEN Or64(Shl1(Not64(n)), U64(1))
    ELSE Shl1(n)

\* The inverse as the code computes it: int64(^(u >> 1) | 0x80000000)
uint2Int(u) ==
    IF u[1] % 2 = 1
    THEN Or64(Not64(Shr1(u)), << 0, 0, 0, 128, 0, 0, 0, 0 >>)
    ELSE Shr1(u)

\* reverseBytes reverses the 8 bytes in n.
reverseBytes(n) == << n[8], n[7], n[6], n[5], n[4], n[3], n[2], n[1] >>

-----------------------------------------------------------------------------
(* Scalars: the write side.  Each returns the bytes written. *)

WriteUint(n) == << typeUint >> \o writeUintValue(n)

WriteInt(n) == << typeInt >> \o writeUintValue(int2Uint(n))

WriteBool(b) == << typeBool >> \o writeUintValue(U64(IF b THEN 1 ELSE 0))

\* f is math.Float64bits of the float64
WriteFloat(f) == << typeFloat >> \o writeUintValue(reverseBytes(f))

writeBinaryValue(p) == writeUintValue(U64(Len(p))) \o p

writeBinary(t, p) == << t >> \o writeBinaryValue(p)

WriteBinary(p) == writeBinary(typeBinary, p)

WriteString(s) == writeBinary(typeString, s)

\* The payload of a value outside the core types is what the gob encoder
\* returns for it: the encoder itself is the caller's.
WriteGob(encoded) == writeBinary(typeGob, encoded)

WriteNull == << typeNull >>

-----------------------------------------------------------------------------
(* The prime finder and the key hash *)

IsPrime(n) == n >= 2 /\ \A d \in 2..(n - 1) : d * d > n \/ n % d # 0

RECURSIVE PrimeFrom(_)
PrimeFrom(i) == IF IsPrime(i) THEN i ELSE PrimeFrom(i + 1)

\* nearestPrime that returns 0 for 0.
nearestPrimeOrZero(n) == IF n = 0 THEN 0 ELSE IF n <= 2 THEN 2 ELSE PrimeFrom(n)

\* nearestPrime, for the n of the model: far below the integer range, where the
\* upward scan always ends.
nearestPrime(n) == IF n <= 2 THEN 2 ELSE PrimeFrom(n)

\* h * 0x100000001b3 = (h << 40) + h * 0x1b3
MulFnvPrime(w) ==
    Add64(<< 0, 0, 0, 0, 0, w[1], w[2], w[3] >>, MulSmall(w, 435))

RECURSIVE FnvFold(_, _, _)
FnvFold(s, i, hash) ==
    IF i > Len(s) THEN hash
    ELSE FnvFold(s, i + 1,
                 MulFnvPrime(<< ByteXor(hash[1], s[i]), hash[2], hash[3], hash[4],
                                hash[5], hash[6], hash[7], hash[8] >>))

\* stringHash: 64-bit FNV-1a, offset basis 0xcbf29ce484222325
stringHash(s) == FnvFold(s, 1, << 37, 35, 34, 132, 228, 156, 242, 203 >>)

-----------------------------------------------------------------------------
(* The value dispatcher and the container writers.  Each returns            *)
(* [b |-> the bytes written, err |-> the error returned].                  *)

SignedTypes == {"int8", "int16", "int32", "int64", "int"}

UnsignedTypes == {"uint8", "uint16", "uint32", "uint64", "uint"}

\* The Go conversions int64(value) and uint64(value) of an integer of any
\* width: a signed source is sign-extended, an unsigned one zero-extended.
Conv64(type, bits) ==
    IF type \in SignedTypes THEN SignExtend(bits) ELSE ZeroExtend(bits)

\* The loop that widens the offset size until it holds the max offset plus the
\* size of the offset section; offsetSize *= 2 is computed in a byte.
RECURSIVE growOffsetSize(_, _, _)
growOffsetSize(maxOffset, count, offsetSize) ==
    IF offsetSize < fixedUintSize(U64(maxOffset + count * offsetSize))
    THEN IF (offsetSize * 2) % 256 > 8
         THEN [size |-> (offsetSize * 2) % 256, err |-> Errorf("invalid offset size")]
         ELSE growOffsetSize(maxOffset, count, (offsetSize * 2) % 256)
    ELSE [size |-> offsetSize, err |-> NoErr]

RECURSIVE fixedUints(_, _, _, _)
\* writeFixedUint of offsets[i..] + delta, one after the other
fixedUints(offsets, delta, size, i) ==
    IF i > Len(offsets) THEN << >>
    ELSE writeFixedUint(U64(offsets[i] + delta), size).b
         \o fixedUints(offsets, delta, size, i + 1)

\* genBuckets: the entries of obj (in the map's iteration order) that fall in
\* bucket i, for i = 0..bucketCount-1, and the average size of the buckets
\* that hold more than one entry.
genBuckets(obj, bucketCount) ==
    LET Pick(idx, i) == { j \in 1..Len(obj) : idx[j] = i }
        RECURSIVE Take(_, _, _)
        Take(idx, i, j) ==
            IF j > Len(obj) THEN << >>
            ELSE (IF idx[j] = i THEN << obj[j] >> ELSE << >>) \o Take(idx, i, j + 1)
        RECURSIVE Buckets(_, _)
        Buckets(idx, i) ==
            IF i >= bucketCount THEN << >>
            ELSE << Take(idx, i, 1) >> \o Buckets(idx, i + 1)
        Average(sumOverflow, numOverflow) ==
            IF numOverflow > 0 THEN sumOverflow \div numOverflow ELSE 0
        Overflow(idx, over) ==
            Average(Cardinality({ j \in 1..Len(obj) : idx[j] \in over }),
                    Cardinality(over))
        Hashed(idx) ==
            [buckets |-> Buckets(idx, 0),
             avgOverflow |->
                 Overflow(idx, { i \in 0..(bucketCount - 1) :
                                   Cardinality(Pick(idx, i)) > 1 })]
    IN  Hashed([j \in 1..Len(obj) |-> Mod64(stringHash(obj[j][1]), bucketCount)])

RECURSIVE WriteValue(_)
RECURSIVE WriteArray(_)
RECURSIVE WriteObject(_)

\* WriteArray: every element is written to a scratch buffer (the error of
\* WriteValue is not looked at), then the marker, the length, the offsets and
\* the scratch buffer.
WriteArray(array) ==
    LET RECURSIVE Elems(_, _, _)
        Elems(i, offsets, data) ==
            IF i > Len(array) THEN [offsets |-> offsets, data |-> data]
            ELSE Elems(i + 1, Append(offsets, Len(data)),
                       data \o WriteValue(array[i]).b)
        Laid(e, g) ==
            IF g.err # NoErr THEN [b |-> << >>, err |-> g.err]
            ELSE [b |-> << newTypeMarker(typeArray, g.size) >>
                        \o writeFixedUint(U64(Len(array)), g.size).b
                        \o fixedUints(e.offsets, Len(array) * g.size, g.size, 1)
                        \o e.data,
                  err |-> NoErr]
        Sized(e, maxOffset) ==
            Laid(e, growOffsetSize(maxOffset, Len(array), fixedUintSize(U64(maxOffset))))
        Written(e) ==
            Sized(e, IF Len(e.offsets) > 0 THEN e.offsets[Len(e.offsets)] ELSE 0)
    IN  Written(Elems(1, << >>, << >>))

\* WriteObject that writes the length of the key where the size of the value
\* belongs.
WriteObjectSizeOfKey(obj) ==
    LET RECURSIVE List(_, _)
        List(list, j) ==
            IF j > Len(list) THEN << >>
            ELSE LET Entry(valueData) ==
                         writeBinaryValue(list[j][1])
                         \o writeUintValue(U64(Len(list[j][1])))
                         \o valueData
                         \o List(list, j + 1)
                 IN  Entry(WriteValue(list[j][2]).b)
        RECURSIVE Data(_, _, _, _)
        Data(buckets, i, offsets, bucketData) ==
            IF i > Len(buckets) THEN [offsets |-> offsets, data |-> bucketData]
            ELSE Data(buckets, i + 1, Append(offsets, Len(bucketData)),
                      bucketData \o writeUintValue(U64(Len(buckets[i])))
                                 \o List(buckets[i], 1))
        Laid(bucketCount, d, g) ==
            IF g.err # NoErr THEN [b |-> << >>, err |-> g.err]
            ELSE [b |-> << newTypeMarker(typeObject, g.size) >>
                        \o writeUintValue(U64(bucketCount))
                        \o fixedUints(d.offsets, bucketCount * g.size, g.size, 1)
                        \o d.data,
                  err |-> NoErr]
        Sized(bucketCount, d, maxOffset) ==
            Laid(bucketCount, d,
                 growOffsetSize(maxOffset, bucketCount, fixedUintSize(U64(maxOffset))))
        Written(bucketCount, d) ==
            Sized(bucketCount, d,
                  IF Len(d.offsets) > 0 THEN d.offsets[Len(d.offsets)] ELSE 0)
        Bucketed(bucketCount, buckets) ==
            Written(bucketCount, Data(buckets, 1, << >>, << >>))
        Rehashed(bucketCount) ==
            Bucketed(bucketCount, genBuckets(obj, bucketCount).buckets)
        First(bucketCount, g) ==
            IF g.avgOverflow > 5
            THEN Rehashed(nearestPrime(Max((bucketCount * 4) \div 3, bucketCount + 1)))
            ELSE Bucketed(bucketCount, g.buckets)
        Counted(bucketCount) == First(bucketCount, genBuckets(obj, bucketCount))
    IN  Counted(nearestPrime((Len(obj) * 4) \div 3))

\* WriteObject: obj is the map's entries <<key, value>> in the order the map
\* iteration yields them.
WriteObject(obj) ==
    LET RECURSIVE List(_, _)
        List(list, j) ==
            IF j > Len(list) THEN << >>
            ELSE LET Entry(valueData) ==
                         writeBinaryValue(list[j][1])
                         \o writeUintValue(U64(Len(valueData)))
                         \o valueData
                         \o List(list, j + 1)
                 IN  Entry(WriteValue(list[j][2]).b)
        RECURSIVE Data(_, _, _, _)
        Data(buckets, i, offsets, bucketData) ==
            IF i > Len(buckets) THEN [offsets |-> offsets, data |-> bucketData]
            ELSE Data(buckets, i + 1, Append(offsets, Len(bucketData)),
                      bucketData \o writeUintValue(U64(Len(buckets[i])))
                                 \o List(buckets[i], 1))
        Laid(bucketCount, d, g) ==
            IF g.err # NoErr THEN [b |-> << >>, err |-> g.err]
            ELSE [b |-> << newTypeMarker(typeObject, g.size) >>
                        \o writeUintValue(U64(bucketCount))
                        \o fixedUints(d.offsets, bucketCount * g.size, g.size, 1)
                        \o d.data,
                  err |-> NoErr]
        Sized(bucketCount, d, maxOffset) ==
            Laid(bucketCount, d,
                 growOffsetSize(maxOffset, bucketCount, fixedUintSize(U64(maxOffset))))
        Written(bucketCount, d) ==
            Sized(bucketCount, d,
                  IF Len(d.offsets) > 0 THEN d.offsets[Len(d.offsets)] ELSE 0)
        Bucketed(bucketCount, buckets) ==
            Written(bucketCount, Data(buckets, 1, << >>, << >>))
        Rehashed(bucketCount) ==
            Bucketed(bucketCount, genBuckets(obj, bucketCount).buckets)
        First(bucketCount, g) ==
            IF g.avgOverflow > 5
            THEN Rehashed(nearestPrime(Max((bucketCount * 4) \div 3, bucketCount + 1)))
            ELSE Bucketed(bucketCount, g.buckets)
        Counted(bucketCount) == First(bucketCount, genBuckets(obj, bucketCount))
    IN  Counted(nearestPrime((Len(obj) * 4) \div 3))

\* WriteValue: the switch on the dynamic type of v.
WriteValue(v) ==
    LET type == v[1]
        payload == v[2]
        ok(bytes) == [b |-> bytes, err |-> NoErr]
    IN  CASE type = "nil" -> ok(WriteNull)
          [] type = "int8" -> ok(WriteUint(Conv64(type, payload)))
          [] type = "uint8" -> ok(WriteInt(Conv64(type, payload)))
          [] type = "int16" -> ok(WriteInt(Conv64(type, payload)))
          [] type = "uint16" -> ok(WriteUint(Conv64(type, payload)))
          [] type = "int32" -> ok(WriteInt(Conv64(type, payload)))
          [] type = "uint32" -> ok(WriteUint(Conv64(type, payload)))
          [] type = "int64" -> ok(WriteInt(Conv64(type, payload)))
          [] type = "uint64" -> ok(WriteUint(Conv64(type, payload)))
          [] type = "int" -> ok(WriteInt(Conv64(type, payload)))
          [] type = "uint" -> ok(WriteUint(Conv64(type, payload)))
          [] type = "bool" -> ok(WriteBool(payload))
          [] type = "string" -> ok(WriteString(payload))
          [] type = "float64" -> ok(WriteFloat(payload))
          [] type = "bytes" -> ok(WriteBinary(payload))
          [] type = "array" -> WriteArray(payload)
          [] type = "object" -> WriteObject(payload)
          [] OTHER -> ok(WriteGob(payload))

\* "hashive\x00"
fileSignature == << 104, 97, 115, 104, 105, 118, 101, 0 >>

\* Write: the signature, then the value; the buffered writer is flushed on
\* return, also when WriteValue failed.
Write(v) ==
    LET Flushed(w) == [b |-> fileSignature \o w.b, err |-> w.err]
    IN  Flushed(WriteValue(v))

-----------------------------------------------------------------------------
(* The byte source and the two ByteReadSeekers.                             *)
(*                                                                         *)
(* A reader is a record: src, the bytes of the underlying io.ReadSeeker (a *)
(* bytes.Reader or a file); upos, the seek position of that source; size,  *)
(* the size of the bufio.Reader's buffer, or 0 for the unbuffered          *)
(* byteReadSeeker; buf, the bytes the bufio.Reader has fetched and not yet *)
(* handed out; bufOffset and bufRead, the fields of bufByteReadSeeker.     *)
(* Every operation returns the reader it leaves behind as field r.         *)

SeekStart == 0

SeekCurrent == 1

SeekEnd == 2

\* bufio.NewReaderSize never makes a buffer smaller than this.
minReadBufferSize == 16

\* Positions of 2^30 and more are all beyond the end of every source of the
\* model and are kept as this one position.
FarPos == 2^30

Clamp(w) == IF FitsNat(w) THEN ToNat(w) ELSE FarPos

\* The underlying source's Read into a slice of length n > 0.
srcRead(r, n) ==
    IF r.upos >= Len(r.src)
    THEN [r |-> r, b |-> << >>, err |-> EOF]
    ELSE LET to == Min(r.upos + n, Len(r.src))
         IN  [r |-> [r EXCEPT !.upos = to],
              b |-> SubSeq(r.src, r.upos + 1, to),
              err |-> NoErr]

\* The underlying source's Seek; offset is an int64.  A negative position is
\* an error, a position beyond the end is not.
srcSeek(r, offset, whence) ==
    LET base == IF whence = SeekStart THEN 0
                ELSE IF whence = SeekCurrent THEN r.upos
                ELSE Len(r.src)
        To(abs) ==
            IF IsNeg(abs)
            THEN [r |-> r, n |-> 0, err |-> Errorf("negative position")]
            ELSE [r |-> [r EXCEPT !.upos = Clamp(abs)], n |-> Clamp(abs), err |-> NoErr]
    IN  IF whence \notin {SeekStart, SeekCurrent, SeekEnd}
        THEN [r |-> r, n |-> 0, err |-> Errorf("invalid whence")]
        ELSE To(Add64(U64(base), offset))

\* (*bufio.Reader).Read into a slice of length n: what is buffered is handed
\* out first; an empty buffer is refilled by one Read of the source, which a
\* read of at least the buffer's size bypasses.
bufioRead(r, n) ==
    IF n = 0 THEN [r |-> r, b |-> << >>, err |-> NoErr]
    ELSE IF Len(r.buf) = 0
    THEN IF n >= r.size
         THEN srcRead(r, n)
         ELSE LET Filled(f) ==
                      IF Len(f.b) = 0 THEN [r |-> f.r, b |-> << >>, err |-> f.err]
                      ELSE [r |-> [f.r EXCEPT !.buf = SubSeq(f.b, Min(n, Len(f.b)) + 1,
                                                             Len(f.b))],
                            b |-> SubSeq(f.b, 1, Min(n, Len(f.b))),
                            err |-> NoErr]
              IN  Filled(srcRead(r, r.size))
    ELSE [r |-> [r EXCEPT !.buf = SubSeq(r.buf, Min(n, Len(r.buf)) + 1, Len(r.buf))],
          b |-> SubSeq(r.buf, 1, Min(n, Len(r.buf))),
          err |-> NoErr]

\* (*bufio.Reader).ReadByte: an empty buffer is filled first.
bufioReadByte(r) ==
    LET Filled(f) ==
            IF Len(f.b) = 0 THEN [r |-> f.r, b |-> << >>, err |-> f.err]
            ELSE [r |-> [f.r EXCEPT !.buf = Tail(f.b)], b |-> << f.b[1] >>, err |-> NoErr]
    IN  Filled(IF Len(r.buf) = 0 THEN srcRead(r, r.size)
               ELSE [r |-> r, b |-> r.buf, err |-> NoErr])

\* NewBufByteReadSeeker over a source at position pos.
NewBufByteReadSeeker(src, pos, bufferSize) ==
    IF bufferSize = 0
    THEN [src |-> src, upos |-> pos, size |-> 0, buf |-> << >>,
          bufOffset |-> 0, bufRead |-> 0]
    ELSE [src |-> src, upos |-> pos, size |-> Max(bufferSize, minReadBufferSize),
          buf |-> << >>, bufOffset |-> pos, bufRead |-> 0]

\* bufByteReadSeeker.Read
bufRead(r, n) ==
    LET Counted(x) ==
            [r |-> [x.r EXCEPT !.bufRead = @ + Len(x.b)], b |-> x.b, err |-> x.err]
    IN  Counted(bufioRead(r, n))

\* bufByteReadSeeker.ReadByte that counts a byte whether or not one was read.
bufReadByteCountsAll(r) ==
    LET Counted(x) ==
            [r |-> [x.r EXCEPT !.bufRead = @ + 1], b |-> x.b, err |-> x.err]
    IN  Counted(bufioReadByte(r))

\* bufByteReadSeeker.ReadByte
bufReadByte(r) ==
    LET Counted(x) ==
            [r |-> IF x.err = NoErr THEN [x.r EXCEPT !.bufRead = @ + 1] ELSE x.r,
             b |-> x.b, err |-> x.err]
    IN  Counted(bufioReadByte(r))

\* bufByteReadSeeker.Seek without the branch that tells the current offset:
\* Seek(0, io.SeekCurrent) goes to the source like every other call.
bufSeekNoTell(r, offset, whence) ==
    LET current == r.bufOffset + r.bufRead
        whence2 == IF whence = SeekCurrent THEN SeekStart ELSE whence
        offset2 == IF whence = SeekCurrent THEN Add64(offset, U64(current)) ELSE offset
        Sought(s) ==
            IF s.err # NoErr THEN s
            ELSE IF s.n - current = 0 THEN s
            ELSE [r |-> [s.r EXCEPT !.buf = << >>, !.bufOffset = s.n, !.bufRead = 0],
                  n |-> s.n, err |-> NoErr]
    IN  Sought(srcSeek(r, offset2, whence2))

\* bufByteReadSeeker.Seek
bufSeek(r, offset, whence) ==
    LET current == r.bufOffset + r.bufRead
        tell == whence = SeekCurrent /\ offset = U64(0)
        whence2 == IF whence = SeekCurrent THEN SeekStart ELSE whence
        offset2 == IF whence = SeekCurrent THEN Add64(offset, U64(current)) ELSE offset
        Sought(s) ==
            IF s.err # NoErr THEN s
            ELSE IF s.n - current = 0 THEN s
            ELSE [r |-> [s.r EXCEPT !.buf = << >>, !.bufOffset = s.n, !.bufRead = 0],
                  n |-> s.n, err |-> NoErr]
    IN  IF tell THEN [r |-> r, n |-> current, err |-> NoErr]
        ELSE Sought(srcSeek(r, offset2, whence2))

\* The ByteReadSeeker interface: Read, ReadByte and Seek of whichever of the
\* two implementations the reader is.
RRead(r, n) == IF r.size = 0 THEN srcRead(r, n) ELSE bufRead(r, n)

\* byteReadSeeker.ReadByte is a Read of one byte.
RReadByte(r) == IF r.size = 0 THEN srcRead(r, 1) ELSE bufReadByte(r)

RSeek(r, offset, whence) ==
    IF r.size = 0 THEN srcSeek(r, offset, whence) ELSE bufSeek(r, offset, whence)

\* The position a reader stands at for its user.
LogicalPos(r) == IF r.size = 0 THEN r.upos ELSE r.bufOffset + r.bufRead

RECURSIVE readFullFrom(_, _, _)
readFullFrom(r, n, got) ==
    IF Len(got) >= n THEN [r |-> r, b |-> got, err |-> NoErr]
    ELSE LET Got(x) ==
                 IF x.err # NoErr
                 THEN [r |-> x.r, b |-> got \o x.b,
                       err |-> IF Len(got \o x.b) >= n THEN NoErr
                               ELSE IF Len(got \o x.b) > 0 /\ x.err = EOF
                               THEN ErrUnexpectedEOF
                               ELSE x.err]
                 ELSE readFullFrom(x.r, n, got \o x.b)
         IN  Got(RRead(r, n - Len(got)))

\* io.ReadFull(r, p) for len(p) = n
ReadFull(r, n) == readFullFrom(r, n, << >>)

-----------------------------------------------------------------------------
(* The read side.  Each operation returns [r, v, err]: the reader it leaves *)
(* behind, the value and the error.  A decoded value is <<type, payload>>  *)
(* with type "nil", "int64", "uint64", "bool", "string", "float64",        *)
(* "bytes", "GobValue", "array" (a tuple of values), "object" (a function  *)
(* from keys to values), "*Array" or "*Object" (a descriptor).             *)

\* The nil interface value, also what a failed read returns as its value.
Nil == << "nil", << >> >>

Ret(r, v, err) == [r |-> r, v |-> v, err |-> err]

\* math.MaxInt64 < n for a uint64 n
OverMaxInt64(n) == n[8] >= 128

\* readFixedUint: size bytes, little-endian, zero-extended.  The slice
\* expression buf[:size] of the 8-byte buffer panics for size > 8.
readFixedUint(r, size) ==
    IF size > 8 THEN Ret(r, U64(0), Panic)
    ELSE LET Got(x) ==
                 IF x.err # NoErr THEN Ret(x.r, U64(0), x.err)
                 ELSE IF size \in 1..8 THEN Ret(x.r, ZeroExtend(x.b), NoErr)
                 ELSE Ret(x.r, U64(0), Errorf("invalid size"))
         IN  Got(ReadFull(r, size))

\* The one element of a set of one element: Only({ e(x) : x \in { d } }) is
\* e(x) for x the value of d.
Only(S) == CHOOSE x \in S : TRUE

\* readUintValue with the length ^b0 in place of ^(b0 - 1).
readUintValueNoDec(r) ==
    Only({ IF x.err # NoErr THEN Ret(x.r, U64(0), x.err)
           ELSE IF x.b[1] <= 127 THEN Ret(x.r, U64(x.b[1]), NoErr)
           ELSE readFixedUint(x.r, 255 - x.b[1])
           : x \in { RReadByte(r) } })

\* readUintValue: a first byte up to 127 is the value; otherwise its negation
\* (as a byte) is the number of bytes that follow.
readUintValue(r) ==
    Only({ IF x.err # NoErr THEN Ret(x.r, U64(0), x.err)
           ELSE IF x.b[1] <= 127 THEN Ret(x.r, U64(x.b[1]), NoErr)
           ELSE readFixedUint(x.r, 256 - x.b[1])
           : x \in { RReadByte(r) } })

readBoolValue(r) ==
    LET Got(x) ==
            IF x.err # NoErr THEN Ret(x.r, FALSE, x.err)
            ELSE IF x.v = U64(0) THEN Ret(x.r, FALSE, NoErr)
            ELSE IF x.v = U64(1) THEN Ret(x.r, TRUE, NoErr)
            ELSE Ret(x.r, FALSE, Errorf("failed to read bool: invalid value"))
    IN  Got(readUintValue(r))

readIntValue(r) ==
    LET Got(x) ==
            IF x.err # NoErr THEN Ret(x.r, U64(0), x.err)
            ELSE Ret(x.r, uint2Int(x.v), NoErr)
    IN  Got(readUintValue(r))

\* readFloatValue: the value is kept as its IEEE 754 bits.
readFloatValue(r) ==
    LET Got(x) ==
            IF x.err # NoErr THEN Ret(x.r, U64(0), x.err)
            ELSE Ret(x.r, reverseBytes(x.v), NoErr)
    IN  Got(readUintValue(r))

\* readBinaryValue: a length, then that many bytes.
readBinaryValue(r) ==
    Only({ IF x.err # NoErr THEN Ret(x.r, << >>, x.err)
           ELSE IF OverMaxInt64(x.v)
           THEN Ret(x.r, << >>, Errorf("failed to read binary: invalid length"))
           ELSE Only({ Ret(y.r, y.b, y.err) : y \in { ReadFull(x.r, Clamp(x.v)) } })
           : x \in { readUintValue(r) } })

readStringValue(r) == readBinaryValue(r)

readGobValue(r) == readBinaryValue(r)

\* readArrayValue: the length, then the position of the offset table.
readArrayValue(r, offsetSize) ==
    Only({ IF x.err # NoErr THEN Ret(x.r, Nil, x.err)
           ELSE IF OverMaxInt64(x.v)
           THEN Ret(x.r, Nil, Errorf("failed to read array: invalid length"))
           ELSE Only({ IF s.err # NoErr THEN Ret(s.r, Nil, s.err)
                       ELSE Ret(s.r,
                                << "*Array", [pos |-> s.n, length |-> Clamp(x.v),
                                              offsetSize |-> offsetSize] >>,
                                NoErr)
                       : s \in { RSeek(x.r, U64(0), SeekCurrent) } })
           : x \in { readFixedUint(r, offsetSize) } })

\* ReadArray: a marker of another type is an error that wraps a *TypeError.
ReadArray(r) ==
    Only({ IF x.err # NoErr THEN Ret(x.r, Nil, x.err)
           ELSE IF MarkerType(x.b[1]) # typeArray
           THEN Ret(x.r, Nil, WrappedTypeError(MarkerType(x.b[1])))
           ELSE readArrayValue(x.r, MarkerOffsetSize(x.b[1]))
           : x \in { RReadByte(r) } })

\* readObjectValue: the bucket count, then the position of the offset table.
readObjectValue(r, offsetSize) ==
    Only({ IF x.err # NoErr THEN Ret(x.r, Nil, x.err)
           ELSE Only({ IF s.err # NoErr THEN Ret(s.r, Nil, s.err)
                       ELSE Ret(s.r,
                                << "*Object", [pos |-> s.n, bucketCount |-> Clamp(x.v),
                                               offsetSize |-> offsetSize] >>,
                                NoErr)
                       : s \in { RSeek(x.r, U64(0), SeekCurrent) } })
           : x \in { readUintValue(r) } })

\* ReadObject: a marker of another type is an error formatted with %v, which
\* wraps nothing.
ReadObject(r) ==
    Only({ IF x.err # NoErr THEN Ret(x.r, Nil, x.err)
           ELSE IF MarkerType(x.b[1]) # typeObject
           THEN Ret(x.r, Nil, Errorf("failed to read object: invalid type"))
           ELSE readObjectValue(x.r, MarkerOffsetSize(x.b[1]))
           : x \in { RReadByte(r) } })

RECURSIVE ReadValue(_, _)
RECURSIVE arrayValueFrom(_, _, _, _)
RECURSIVE scanBucket(_, _, _, _)
RECURSIVE listBucket(_, _, _)
RECURSIVE objectValueFrom(_, _, _, _)

\* Array.Index; i is a Go int.  The bounds check is i < 0 || i+1 > length,
\* with i+1 computed in 64 bits.
ArrayIndex(r, array, i, recursive) ==
    IF IsNeg(i) \/ SLess(U64(array.length), Add64(i, U64(1)))
    THEN Ret(r, Nil, BoundsError(array.length, i))
    ELSE Only({
        IF s1.err # NoErr THEN Ret(s1.r, Nil, s1.err)
        ELSE Only({
            IF x.err # NoErr THEN Ret(x.r, Nil, x.err)
            ELSE IF OverMaxInt64(x.v) THEN Ret(x.r, Nil, Errorf("invalid offset"))
            ELSE Only({
                IF s2.err # NoErr THEN Ret(s2.r, Nil, s2.err)
                ELSE ReadValue(s2.r, recursive)
                : s2 \in { RSeek(x.r, Add64(U64(array.pos), x.v), SeekStart) } })
            : x \in { readFixedUint(s1.r, array.offsetSize) } })
        : s1 \in { RSeek(r, Add64(U64(array.pos), MulSmall(i, array.offsetSize)),
                         SeekStart) } })

\* The loop of Array.Value from element i on, v the elements read so far.
\* The offset is not checked against math.MaxInt64 here.
arrayValueFrom(r, array, i, v) ==
    IF i >= array.length THEN Ret(r, v, NoErr)
    ELSE Only({
        IF s1.err # NoErr THEN Ret(s1.r, v, s1.err)
        ELSE Only({
            IF x.err # NoErr THEN Ret(x.r, v, x.err)
            ELSE Only({
                IF s2.err # NoErr THEN Ret(s2.r, v, s2.err)
                ELSE Only({
                    IF e.err # NoErr THEN Ret(e.r, v, e.err)
                    ELSE arrayValueFrom(e.r, array, i + 1, Append(v, e.v))
                    : e \in { ReadValue(s2.r, TRUE) } })
                : s2 \in { RSeek(x.r, Add64(U64(array.pos), x.v), SeekStart) } })
            : x \in { readFixedUint(s1.r, array.offsetSize) } })
        : s1 \in { RSeek(r, U64(array.pos + array.offsetSize * i), SeekStart) } })

\* Array.Value: every element, in order.
ArrayValue(r, array) ==
    Only({ Ret(e.r, << "array", e.v >>, e.err)
           : e \in { arrayValueFrom(r, array, 0, << >>) } })

\* What Object.Index and Object.Value do first for entry i of the offset
\* table: seek to the entry, read the offset, seek to the bucket and read the
\* length of its list.
bucketAt(r, obj, i) ==
    Only({
        IF s1.err # NoErr THEN Ret(s1.r, 0, s1.err)
        ELSE Only({
            IF x.err # NoErr THEN Ret(x.r, 0, x.err)
            ELSE IF OverMaxInt64(x.v) THEN Ret(x.r, 0, Errorf("invalid offset"))
            ELSE Only({
                IF s2.err # NoErr THEN Ret(s2.r, 0, s2.err)
                ELSE Only({ IF n.err # NoErr THEN Ret(n.r, 0, n.err)
                            ELSE Ret(n.r, Clamp(n.v), NoErr)
                            : n \in { readUintValue(s2.r) } })
                : s2 \in { RSeek(x.r, Add64(U64(obj.pos), x.v), SeekStart) } })
            : x \in { readFixedUint(s1.r, obj.offsetSize) } })
        : s1 \in { RSeek(r, U64(obj.pos + i * obj.offsetSize), SeekStart) } })

\* The loop of Object.Index over a bucket with left entries to go: an entry
\* of another key is skipped by seeking over its value.
scanBucket(r, key, recursive, left) ==
    IF left = 0 THEN Ret(r, Nil, ErrNotFound)
    ELSE Only({
        IF k.err # NoErr THEN Ret(k.r, Nil, k.err)
        ELSE Only({
            IF size.err # NoErr THEN Ret(size.r, Nil, size.err)
            ELSE IF key = k.v THEN ReadValue(size.r, recursive)
            ELSE Only({
                IF skip.err # NoErr THEN Ret(skip.r, Nil, skip.err)
                ELSE scanBucket(skip.r, key, recursive, left - 1)
                : skip \in { RSeek(size.r, size.v, SeekCurrent) } })
            : size \in { readUintValue(k.r) } })
        : k \in { readStringValue(r) } })

\* Object.Index: the bucket of the key's hash is scanned.  A bucket count of
\* 0 is a division by zero.
ObjectIndex(r, obj, key, recursive) ==
    IF obj.bucketCount = 0 THEN Ret(r, Nil, Panic)
    ELSE Only({ IF b.err # NoErr THEN Ret(b.r, Nil, b.err)
                ELSE scanBucket(b.r, key, recursive, b.v)
                : b \in { bucketAt(r, obj, Mod64(stringHash(key), obj.bucketCount)) } })

\* The inner loop of Object.Value over a bucket with left entries to go, v
\* the entries read so far.
listBucket(r, left, v) ==
    IF left = 0 THEN Ret(r, v, NoErr)
    ELSE Only({
        IF k.err # NoErr THEN Ret(k.r, v, k.err)
        ELSE Only({
            IF size.err # NoErr THEN Ret(size.r, v, size.err)
            ELSE Only({
                IF e.err # NoErr THEN Ret(e.r, v, e.err)
                ELSE listBucket(e.r, left - 1,
                                [y \in DOMAIN v \cup { k.v } |->
                                    IF y = k.v THEN e.v ELSE v[y]])
                : e \in { ReadValue(size.r, TRUE) } })
            : size \in { readUintValue(k.r) } })
        : k \in { readStringValue(r) } })

\* The outer loop of Object.Value from bucket i on.
objectValueFrom(r, obj, i, v) ==
    IF i >= obj.bucketCount THEN Ret(r, v, NoErr)
    ELSE Only({
        IF b.err # NoErr THEN Ret(b.r, v, b.err)
        ELSE Only({
            IF l.err # NoErr THEN l
            ELSE objectValueFrom(l.r, obj, i + 1, l.v)
            : l \in { listBucket(b.r, b.v, v) } })
        : b \in { bucketAt(r, obj, i) } })

\* Object.Value: every entry of every bucket.
ObjectValue(r, obj) ==
    Only({ Ret(o.r, << "object", o.v >>, o.err)
           : o \in { objectValueFrom(r, obj, 0, [y \in {} |-> Nil]) } })

\* A scalar read by ReadValue, with its dynamic type.
scalarValue(type, y) ==
    IF y.err # NoErr THEN Ret(y.r, Nil, y.err) ELSE Ret(y.r, << type, y.v >>, NoErr)

\* The array or object ReadValue makes of a descriptor when recursive.
allValue(v) == IF v.err # NoErr THEN Ret(v.r, Nil, v.err) ELSE v

\* ReadValue: the switch on the marker's type.  With recursive false an array
\* or an object is returned as its descriptor.
ReadValue(r, recursive) ==
    Only({
        IF x.err # NoErr THEN Ret(x.r, Nil, x.err)
        ELSE Only({
            CASE t = typeNull -> Ret(x.r, Nil, NoErr)
              [] t = typeInt -> scalarValue("int64", readIntValue(x.r))
              [] t = typeUint -> scalarValue("uint64", readUintValue(x.r))
              [] t = typeBool -> scalarValue("bool", readBoolValue(x.r))
              [] t = typeString -> scalarValue("string", readStringValue(x.r))
              [] t = typeFloat -> scalarValue("float64", readFloatValue(x.r))
              [] t = typeBinary -> scalarValue("bytes", readBinaryValue(x.r))
              [] t = typeGob -> scalarValue("GobValue", readGobValue(x.r))
              [] t = typeArray ->
                     Only({ IF a.err # NoErr \/ ~recursive THEN a
                            ELSE allValue(ArrayValue(a.r, a.v[2]))
                            : a \in { readArrayValue(x.r, MarkerOffsetSize(x.b[1])) } })
              [] t = typeObject ->
                     Only({ IF o.err # NoErr \/ ~recursive THEN o
                            ELSE allValue(ObjectValue(o.r, o.v[2]))
                            : o \in { readObjectValue(x.r, MarkerOffsetSize(x.b[1])) } })
              [] OTHER -> Ret(x.r, Nil, Errorf("failed to read value: invalid type"))
            : t \in { MarkerType(x.b[1]) } })
        : x \in { RReadByte(r) } })

\* ReadInt: the marker must be that of an int.
ReadInt(r) ==
    Only({ IF x.err # NoErr THEN Ret(x.r, U64(0), x.err)
           ELSE IF MarkerType(x.b[1]) # typeInt
           THEN Ret(x.r, U64(0), Errorf("failed to read int: invalid type"))
           ELSE readIntValue(x.r)
           : x \in { RReadByte(r) } })

-----------------------------------------------------------------------------
(* Package hashive: New and Query.  A path element is a string, a tuple of *)
(* bytes like every string of the model.                                   *)

defaultBufferSize == 1024

\* lower(c) of strconv: c | ('x' - 'X')
lower(c) == ByteOr(c, 32)

\* The carry out of w * c + carry, computed from byte i on: not 0 when the
\* result does not fit 64 bits.
RECURSIVE CarryOut(_, _, _, _)
CarryOut(w, c, i, carry) ==
    IF i > 8 THEN carry ELSE CarryOut(w, c, i + 1, (w[i] * c + carry) \div 256)

\* underscoreOK of strconv: underscores only between digits, or between the
\* base prefix and a digit.
underscoreOK(s) ==
    LET prefixed == Len(s) >= 2 /\ s[1] = 48 /\ lower(s[2]) \in {98, 111, 120}
        hex == prefixed /\ lower(s[2]) = 120
        RECURSIVE Walk(_, _)
        Walk(j, last) ==
            IF j > Len(s) THEN last # "_"
            ELSE IF s[j] \in 48..57 \/ (hex /\ lower(s[j]) \in 97..102)
            THEN Walk(j + 1, "0")
            ELSE IF s[j] = 95
            THEN last = "0" /\ Walk(j + 1, "_")
            ELSE last # "_" /\ Walk(j + 1, "!")
    IN  IF prefixed THEN Walk(3, "0") ELSE Walk(1, "^")

\* strconv.ParseUint(s, 0, 64): the base is taken from the prefix (0b, 0o, 0x,
\* or a leading 0 for octal), an underscore may separate digits.  Returns
\* [n, err]; a value that does not fit 64 bits is a range error.
ParseUint(s) ==
    LET syntax == [n |-> U64(0), err |-> Errorf("strconv.ParseUint: invalid syntax")]
        range == [n |-> << 255, 255, 255, 255, 255, 255, 255, 255 >>,
                  err |-> Errorf("strconv.ParseUint: value out of range")]
        long == Len(s) >= 3 /\ s[1] = 48
        base == IF s[1] # 48 THEN 10
                ELSE IF long /\ lower(s[2]) = 98 THEN 2
                ELSE IF long /\ lower(s[2]) = 111 THEN 8
                ELSE IF long /\ lower(s[2]) = 120 THEN 16
                ELSE 8
        first == IF s[1] # 48 THEN 1
                 ELSE IF long /\ lower(s[2]) \in {98, 111, 120} THEN 3
                 ELSE 2
        Digit(c) == IF c = 95 THEN -1
                    ELSE IF c \in 48..57 THEN c - 48
                    ELSE IF lower(c) \in 97..122 THEN lower(c) - 97 + 10
                    ELSE 99
        RECURSIVE Digits(_, _, _)
        Digits(j, n, underscores) ==
            IF j > Len(s)
            THEN IF underscores /\ ~underscoreOK(s) THEN syntax
                 ELSE [n |-> n, err |-> NoErr]
            ELSE IF Digit(s[j]) = -1 THEN Digits(j + 1, n, TRUE)
            ELSE IF Digit(s[j]) >= base THEN syntax
            ELSE IF CarryOut(n, base, 1, Digit(s[j])) # 0 THEN range
            ELSE Digits(j + 1, MulCarry(n, base, 1, Digit(s[j])), underscores)
    IN  IF Len(s) = 0 THEN syntax ELSE Digits(first, U64(0), FALSE)

\* New without the comparison of the signature read.
NewAnySignature(src, readBufferSize) ==
    Only({
        IF sig.err # NoErr THEN [h |-> Nil, err |-> sig.err]
        ELSE Only({
            IF IsTypeError(o.err)
            THEN Only({
                IF s.err # NoErr THEN [h |-> Nil, err |-> s.err]
                ELSE Only({
                    IF ~IsTypeError(a.err) THEN [h |-> Nil, err |-> a.err]
                    ELSE [h |-> << "*Hashive", [r |-> a.r, ary |-> a.v, obj |-> o.v] >>,
                          err |-> NoErr]
                    : a \in { ReadArray(s.r) } })
                : s \in { RSeek(o.r, U64(Len(fileSignature)), SeekStart) } })
            ELSE [h |-> << "*Hashive", [r |-> o.r, ary |-> Nil, obj |-> o.v] >>,
                  err |-> NoErr]
            : o \in { ReadObject(sig.r) } })
        : sig \in { ReadFull(NewBufByteReadSeeker(
                                 src, 0,
                                 IF readBufferSize < 0 THEN defaultBufferSize
                                 ELSE readBufferSize),
                             Len(fileSignature)) } })

\* New: the signature is checked, then the root is read as an object; only
\* when that error is a *TypeError is it read as an array.  Returns [h, err],
\* h the nil pointer or <<"*Hashive", [r, ary, obj]>>.
New(src, readBufferSize) ==
    Only({
        IF sig.err # NoErr THEN [h |-> Nil, err |-> sig.err]
        ELSE IF sig.b # fileSignature
        THEN [h |-> Nil, err |-> Errorf("invalid signature")]
        ELSE Only({
            IF IsTypeError(o.err)
            THEN Only({
                IF s.err # NoErr THEN [h |-> Nil, err |-> s.err]
                ELSE Only({
                    IF ~IsTypeError(a.err) THEN [h |-> Nil, err |-> a.err]
                    ELSE [h |-> << "*Hashive", [r |-> a.r, ary |-> a.v, obj |-> o.v] >>,
                          err |-> NoErr]
                    : a \in { ReadArray(s.r) } })
                : s \in { RSeek(o.r, U64(Len(fileSignature)), SeekStart) } })
            ELSE [h |-> << "*Hashive", [r |-> o.r, ary |-> Nil, obj |-> o.v] >>,
                  err |-> NoErr]
            : o \in { ReadObject(sig.r) } })
        : sig \in { ReadFull(NewBufByteReadSeeker(
                                 src, 0,
                                 IF readBufferSize < 0 THEN defaultBufferSize
                                 ELSE readBufferSize),
                             Len(fileSignature)) } })

RECURSIVE queryObject(_, _, _)
RECURSIVE queryArray(_, _, _)

\* queryObject: the first path element is the key; the rest is for the
\* container found.
queryObject(r, path, obj) ==
    Only({ IF x.err # NoErr THEN Ret(x.r, Nil, x.err)
           ELSE IF Len(path) = 1 THEN x
           ELSE IF x.v[1] = "*Object" THEN queryObject(x.r, Tail(path), x.v[2])
           ELSE IF x.v[1] = "*Array" THEN queryArray(x.r, Tail(path), x.v[2])
           ELSE Ret(x.r, Nil, ErrNotFound)
           : x \in { ObjectIndex(r, obj, path[1], Len(path) = 1) } })

\* queryArray: the first path element is parsed as the index; the error of the
\* parse and the error of Array.Index are returned as they are.
queryArray(r, path, ary) ==
    Only({
        IF index.err # NoErr THEN Ret(r, Nil, index.err)
        ELSE IF OverMaxInt64(index.n) THEN Ret(r, Nil, Errorf("invalid index"))
        ELSE Only({
            IF x.err # NoErr THEN Ret(x.r, Nil, x.err)
            ELSE IF Len(path) = 1 THEN x
            ELSE IF x.v[1] = "*Object" THEN queryObject(x.r, Tail(path), x.v[2])
            ELSE IF x.v[1] = "*Array" THEN queryArray(x.r, Tail(path), x.v[2])
            ELSE Ret(x.r, Nil, ErrNotFound)
            : x \in { ArrayIndex(r, ary, index.n, Len(path) = 1) } })
        : index \in { ParseUint(path[1]) } })

\* Hashive.Query on the instance hv; the reader of the result is the
\* instance's reader afterwards.
Query(hv, path) ==
    IF Len(path) = 0
    THEN Only({ IF s.err # NoErr THEN Ret(s.r, Nil, s.err)
                ELSE ReadValue(s.r, TRUE)
                : s \in { RSeek(hv.r, U64(Len(fileSignature)), SeekStart) } })
    ELSE IF hv.obj[1] # "nil" THEN queryObject(hv.r, path, hv.obj[2])
    ELSE IF hv.ary[1] # "nil" THEN queryArray(hv.r, path, hv.ary[2])
    ELSE Ret(hv.r, Nil, ErrNotFound)

-----------------------------------------------------------------------------
(* The values the specifications write.                                    *)

\* The most entries of an array or a map.
MaxLen == 2

\* "0123456789ab": with the marker and the length before it, longer than what
\* is left of a 16-byte buffer that was filled at the marker of the array
\* around it.
LongString == << 48, 49, 50, 51, 52, 53, 54, 55, 56, 57, 97, 98 >>

\* The map keys: "", "1", "0x1"
KeySeq == << << >>, << 49 >>, << 48, 120, 49 >> >>

\* The scalar values: nil, int8(-1), uint8(200), int16(-32768),
\* uint32(4294967295), int64(-2147483649), int(1), uint64(2^64-1), true,
\* float64(1.5), "b", LongString, []byte{0, 255}
Scalars ==
    { Nil,
      << "int8", << 255 >> >>,
      << "uint8", << 200 >> >>,
      << "int16", << 0, 128 >> >>,
      << "uint32", << 255, 255, 255, 255 >> >>,
      << "int64", << 255, 255, 255, 127, 255, 255, 255, 255 >> >>,
      << "int", << 1, 0, 0, 0, 0, 0, 0, 0 >> >>,
      << "uint64", << 255, 255, 255, 255, 255, 255, 255, 255 >> >>,
      << "bool", TRUE >>,
      << "float64", << 0, 0, 0, 0, 0, 0, 248, 63 >> >>,
      << "string", << 98 >> >>,
      << "string", LongString >>,
      << "bytes", << 0, 255 >> >> }

\* The values put into the larger containers: int(1), "b", LongString,
\* ["0123456789ab"], [1, "b"], {"1": 1, "0x1": "b"}
Elems ==
    { << "int", << 1, 0, 0, 0, 0, 0, 0, 0 >> >>,
      << "string", << 98 >> >>,
      << "string", LongString >>,
      << "array", << << "string", LongString >> >> >>,
      << "array", << << "int", << 1, 0, 0, 0, 0, 0, 0, 0 >> >>, << "string", << 98 >> >> >> >>,
      << "object", << << << 49 >>, << "int", << 1, 0, 0, 0, 0, 0, 0, 0 >> >> >>,
                      << << 48, 120, 49 >>, << "string", << 98 >> >> >> >> >> }

\* The sequences of length n over the set S.
RECURSIVE SeqsOf(_, _)
SeqsOf(S, n) ==
    IF n = 0 THEN { << >> }
    ELSE { << x >> \o t : x \in S, t \in SeqsOf(S, n - 1) }

\* The sequences of n entries <<key, value>>, values from S, keys distinct and
\* in the order of KeySeq from its element i on.
RECURSIVE EntriesOf(_, _, _)
EntriesOf(i, S, n) ==
    IF n = 0 THEN { << >> }
    ELSE UNION { { << << KeySeq[j], x >> >> \o t : x \in S, t \in EntriesOf(j + 1, S, n - 1) } :
                 j \in i..Len(KeySeq) }

\* The []any and map[string]any values of up to max entries over S.
Containers(S, max) ==
    UNION { { << "array", a >> : a \in SeqsOf(S, n) }
            \cup { << "object", e >> : e \in EntriesOf(1, S, n) } :
            n \in 0..max }

\* The values handed to Write: every scalar, every scalar in a container of
\* its own, and the containers of up to MaxLen entries over Elems.
Roots == Scalars \cup Containers(Scalars, 1) \cup Containers(Elems, MaxLen)

\* The permutations of a sequence.
RECURSIVE Perms(_)
Perms(s) ==
    IF Len(s) = 0 THEN { << >> }
    ELSE UNION { { << s[i] >> \o t :
                     t \in Perms(SubSeq(s, 1, i - 1) \o SubSeq(s, i + 1, Len(s))) } :
                 i \in 1..Len(s) }

\* The sequences that take their element i from sets[i].
RECURSIVE Product(_)
Product(sets) ==
    IF Len(sets) = 0 THEN { << >> }
    ELSE { << x >> \o t : x \in sets[1], t \in Product(Tail(sets)) }

\* A Go map is iterated in an order that is not specified: every order of the
\* entries of every map of v is a value the writer may see.
RECURSIVE Orderings(_)
Orderings(v) ==
    CASE v[1] = "array" ->
           { << "array", a >> :
               a \in Product([i \in 1..Len(v[2]) |-> Orderings(v[2][i])]) }
      [] v[1] = "object" ->
           UNION { { << "object", [i \in 1..Len(p) |-> << p[i][1], o[i] >>] >> :
                       o \in Product([i \in 1..Len(p) |-> Orderings(p[i][2])]) } :
                   p \in Perms(v[2]) }
      [] OTHER -> { v }

-----------------------------------------------------------------------------
(* What the documentation says is read back.                               *)

\* The entry of key k in the entries of a map.
RECURSIVE EntryOf(_, _, _)
EntryOf(entries, k, i) ==
    IF i > Len(entries) THEN Nil
    ELSE IF entries[i][1] = k THEN entries[i][2]
    ELSE EntryOf(entries, k, i + 1)

\* The value a written value is documented to be stored and read back as:
\* every signed integer as int64, every unsigned integer as uint64, bool,
\* string, float64 and []byte as they are, []any as []any and map[string]any
\* as map[string]any.
RECURSIVE Widen(_)
Widen(v) ==
    LET RECURSIVE Each(_, _)
        Each(a, i) == IF i > Len(a) THEN << >> ELSE << Widen(a[i]) >> \o Each(a, i + 1)
    IN  CASE v[1] \in SignedTypes -> << "int64", SignExtend(v[2]) >>
          [] v[1] \in UnsignedTypes -> << "uint64", ZeroExtend(v[2]) >>
          [] v[1] = "array" -> << "array", Each(v[2], 1) >>
          [] v[1] = "object" ->
               << "object",
                  [k \in { v[2][i][1] : i \in 1..Len(v[2]) } |-> Widen(EntryOf(v[2], k, 1))] >>
          [] OTHER -> v

\* h["key1"]["key2"][1]["key3"] on a materialized value d: a step at a map is
\* the key, a step at an array is the index the element is the literal of.
\* Returns [found, v].
RECURSIVE Walk(_, _)
Walk(d, path) ==
    LET index == ParseUint(path[1])
        absent == [found |-> FALSE, v |-> Nil]
    IN  IF Len(path) = 0 THEN [found |-> TRUE, v |-> d]
        ELSE IF d[1] = "object"
        THEN IF path[1] \in DOMAIN d[2] THEN Walk(d[2][path[1]], Tail(path)) ELSE absent
        ELSE IF d[1] = "array"
        THEN IF index.err = NoErr /\ FitsNat(index.n) /\ ToNat(index.n) < Len(d[2])
             THEN Walk(d[2][ToNat(index.n) + 1], Tail(path))
             ELSE absent
        ELSE absent

-----------------------------------------------------------------------------
(* Specification Spec: a value is written with Write, the bytes are opened *)
(* with New, and the instance is queried.                                  *)
(*   value  the value handed to Write                                      *)
(*   file   the bytes written                                              *)
(*   h      what New returned: the nil pointer or the instance             *)
(*   res    what the last operation returned                               *)
(*   op     the last operation                                             *)
(*   nops   the number of queries so far                                   *)

\* The most queries put to one instance.
MaxQueries == 1

\* The most elements of a path.
MaxPathLen == 2

\* The read buffer sizes handed to New: none, one below bufio's minimum, and
\* the default.
BufferSizes == { 0, 5, -1 }

\* The path elements: "", "1", "0x1", "0", "5", "k"
PathElems == { << >>, << 49 >>, << 48, 120, 49 >>, << 48 >>, << 53 >>, << 107 >> }

Paths == UNION { SeqsOf(PathElems, n) : n \in 0..MaxPathLen }

Init ==
    /\ value \in Roots
    /\ file = << >>
    /\ h = Nil
    /\ res = [err |-> NoErr]
    /\ op = "start"
    /\ nops = 0

\* Write(w, value) into an empty buffer.
DoWrite ==
    /\ op = "start"
    /\ \E v \in Orderings(value) :
         \E w \in { Write(v) } :
             /\ file' = w.b
             /\ res' = [err |-> w.err]
    /\ op' = "written"
    /\ UNCHANGED << value, h, nops >>

\* New(bytes.NewReader(file), readBufferSize)
DoNew(readBufferSize) ==
    /\ op = "written"
    /\ res.err = NoErr
    /\ \E n \in { New(file, readBufferSize) } :
           /\ h' = n.h
           /\ res' = [err |-> n.err]
    /\ op' = "opened"
    /\ UNCHANGED << value, file, nops >>

\* h.Query(path...)
DoQuery(path) ==
    /\ op \in { "opened", "queried" }
    /\ h[1] = "*Hashive"
    /\ nops < MaxQueries
    /\ \E q \in { Query(h[2], path) } :
           /\ res' = [v |-> q.v, err |-> q.err, path |-> path]
           /\ h' = << "*Hashive", [h[2] EXCEPT !.r = q.r] >>
    /\ op' = "queried"
    /\ nops' = nops + 1
    /\ UNCHANGED << value, file >>

Next ==
    \/ DoWrite
    \/ \E readBufferSize \in BufferSizes : DoNew(readBufferSize)
    \/ \E path \in Paths : DoQuery(path)

Spec == Init /\ [][Next]_vars

-----------------------------------------------------------------------------
(* Properties of Write, New and Query, under Spec.                         *)

\* C1: round trip.  For every value tree, Write, then New on the bytes, then
\* Query with the empty path succeed, and the value returned is the value
\* written with every signed integer as int64 and every unsigned integer as
\* uint64.
C1_RoundTrip ==
    /\ op = "written" => res.err = NoErr
    /\ op = "opened" => res.err = NoErr /\ h[1] = "*Hashive"
    /\ op = "queried" /\ res.path = << >> =>
         res.err = NoErr /\ res.v = Widen(value)

\* C2: lazy is eager.  For every path that names an element of the root as
\* Query with the empty path materializes it on a freshly opened instance, the
\* first Query with that path on a freshly opened instance returns that
\* element.
C2_LazyIsEager ==
    op = "queried" /\ nops = 1 /\ Len(res.path) > 0 =>
        LET root == Query(New(file, h[2].r.size).h[2], << >>)
            elem == Walk(root.v, res.path)
        IN  root.err = NoErr /\ elem.found =>
                res.err = NoErr /\ res.v = elem.v

\* C3: an array root.  When the value written is an array, New returns an
\* instance and no error, the instance holds the array's descriptor, and
\* Query("i") returns element i for 0 <= i < length.
C3_ArrayRootOpens ==
    value[1] = "array" =>
        /\ op = "opened" =>
             /\ res.err = NoErr
             /\ h[1] = "*Hashive"
             /\ h[2].ary[1] = "*Array"
             /\ h[2].ary[2].length = Len(value[2])
        /\ op = "queried" /\ nops = 1 =>
             \A i \in 0..(Len(value[2]) - 1) :
                 res.path = << << 48 + i >> >> =>
                     res.err = NoErr /\ res.v = Widen(value[2][i + 1])

\* C9: not found.  Query with a non-empty path that maps to no value of the
\* written tree (a key the map does not have, a step into a scalar, an index
\* out of range or a step at an array that is no index) returns nil and
\* ErrNotFound.
C9_NotFound ==
    op = "queried" /\ Len(res.path) > 0 /\ ~Walk(Widen(value), res.path).found =>
        res.v = Nil /\ res.err = ErrNotFound

\* C10: a path step is read by the container it is applied to.  For a path of
\* the elements "1" and "0x1", Query returns the element reached by taking
\* each step as an index literal at an array (both are index 1) and as the key
\* itself at a map, and an error when there is no such element.
C10_StepByContainer ==
    op = "queried" /\ nops = 1 /\ Len(res.path) > 0
    /\ (\A i \in 1..Len(res.path) : res.path[i] \in { << 49 >>, << 48, 120, 49 >> }) =>
        LET elem == Walk(Widen(value), res.path)
        IN  IF elem.found
            THEN res.err = NoErr /\ res.v = elem.v
            ELSE res.err # NoErr

-----------------------------------------------------------------------------
(* Specification SpecCodec: one Go integer is written with WriteValue and  *)
(* read with ReadValue; an int64 is also written with WriteInt and read    *)
(* with ReadInt, and mapped by int2Uint and back by uint2Int.              *)
(*   value  the integer, <<type, its bytes in the width of the type>>      *)
(*   file   the bytes written                                              *)
(*   res    what the last operation returned                               *)

\* How far from 0, from the ends of a type's range and from +-2^31 the
\* integers go.
EdgeSpan == 2

RECURSIVE Rep(_, _)
Rep(b, n) == IF n <= 0 THEN << >> ELSE << b >> \o Rep(b, n - 1)

\* The size in bytes of a Go integer type (int and uint are 64 bits wide).
Width(type) ==
    CASE type \in { "int8", "uint8" } -> 1
      [] type \in { "int16", "uint16" } -> 2
      [] type \in { "int32", "uint32" } -> 4
      [] OTHER -> 8

\* The bit patterns of width w that lie k from all zeros (0), from all ones
\* (-1, or the largest unsigned), from the sign bit alone (the smallest
\* signed) and from its complement (the largest signed).
EdgePatterns(w, k) ==
    { << k >> \o Rep(0, w - 1),
      << 255 - k >> \o Rep(255, w - 1),
      IF w = 1 THEN << 128 + k >> ELSE << k >> \o Rep(0, w - 2) \o << 128 >>,
      IF w = 1 THEN << 127 - k >> ELSE << 255 - k >> \o Rep(255, w - 2) \o << 127 >> }

\* The 64-bit patterns 2^31 + k, 2^31 - 1 - k and their complements
\* -2^31 - 1 - k and -2^31 + k.
Bit31Patterns(k) ==
    { << k, 0, 0, 128, 0, 0, 0, 0 >>,
      Not64(<< k, 0, 0, 128, 0, 0, 0, 0 >>),
      << 255 - k, 255, 255, 127, 0, 0, 0, 0 >>,
      Not64(<< 255 - k, 255, 255, 127, 0, 0, 0, 0 >>) }

IntBits(w) ==
    UNION { EdgePatterns(w, k) \cup (IF w = 8 THEN Bit31Patterns(k) ELSE { }) :
            k \in 0..EdgeSpan }

\* The integers handed to the codec, of every Go integer type.
IntInputs ==
    UNION { { << type, bits >> : bits \in IntBits(Width(type)) } :
            type \in SignedTypes \cup UnsignedTypes }

InitCodec ==
    /\ value \in IntInputs
    /\ file = << >>
    /\ h = Nil
    /\ res = [err |-> NoErr]
    /\ op = "start"
    /\ nops = 0

\* WriteValue(w, value, gobEncoder) into an empty buffer
DoWriteValue ==
    /\ op = "start"
    /\ \E w \in { WriteValue(value) } :
           /\ file' = w.b
           /\ res' = [err |-> w.err]
    /\ op' = "WriteValue"
    /\ UNCHANGED << value, h, nops >>

\* ReadValue(r, true) of what WriteValue wrote, r an unbuffered reader
DoReadValue ==
    /\ op = "WriteValue"
    /\ \E x \in { ReadValue(NewBufByteReadSeeker(file, 0, 0), TRUE) } :
           res' = [v |-> x.v, err |-> x.err]
    /\ op' = "ReadValue"
    /\ UNCHANGED << value, file, h, nops >>

\* WriteInt(w, n) for an int64 n
DoWriteInt ==
    /\ op = "start"
    /\ value[1] = "int64"
    /\ file' = WriteInt(value[2])
    /\ op' = "WriteInt"
    /\ UNCHANGED << value, h, res, nops >>

\* ReadInt(r) of what WriteInt wrote
DoReadInt ==
    /\ op = "WriteInt"
    /\ \E x \in { ReadInt(NewBufByteReadSeeker(file, 0, 0)) } :
           res' = [v |-> x.v, err |-> x.err]
    /\ op' = "ReadInt"
    /\ UNCHANGED << value, file, h, nops >>

\* uint2Int(int2Uint(n)) for an int64 n
DoInt2Uint ==
    /\ op = "start"
    /\ value[1] = "int64"
    /\ res' = [v |-> uint2Int(int2Uint(value[2])), err |-> NoErr]
    /\ op' = "uint2Int"
    /\ UNCHANGED << value, file, h, nops >>

NextCodec ==
    \/ DoWriteValue
    \/ DoReadValue
    \/ DoWriteInt
    \/ DoReadInt
    \/ DoInt2Uint

SpecCodec == InitCodec /\ [][NextCodec]_vars

\* C5: integer widening.  A signed integer of any type is stored under the
\* int marker and read back as the int64 of the same number; an unsigned
\* integer of any type is stored under the uint marker and read back as the
\* uint64 of the same number.
C5_IntegerWidening ==
    /\ op \in { "WriteValue", "ReadValue" } =>
         file[1] = (IF value[1] \in SignedTypes THEN typeInt ELSE typeUint)
    /\ op = "ReadValue" =>
         /\ res.err = NoErr
         /\ res.v = << IF value[1] \in SignedTypes THEN "int64" ELSE "uint64",
                       Conv64(value[1], value[2]) >>

\* C6: the mapping of signed to unsigned is undone by its inverse.  For every
\* int64 n, uint2Int(int2Uint(n)) = n, and ReadInt of what WriteInt(n) wrote
\* returns n.
C6_Int2UintInverse ==
    /\ op = "uint2Int" => res.v = value[2]
    /\ op = "ReadInt" => res.err = NoErr /\ res.v = value[2]

-----------------------------------------------------------------------------
(* Specification SpecSeek: a bufByteReadSeeker over a source whose byte at *)
(* position i is i, used by Read, ReadByte and Seek.                       *)
(*   file   the source's bytes                                             *)
(*   h      the reader                                                     *)
(*   value  the position a raw source is at after the same seeks and after *)
(*          reads of the same numbers of bytes                             *)
(*   res    what the last call returned, and pos, the reader's logical     *)
(*          position before the call                                       *)
(*   nops   the number of calls so far                                     *)

\* The length of the source.
SrcLen == 20

\* The most calls on one reader.
MaxCalls == 4

\* The buffer sizes handed to NewBufByteReadSeeker: below bufio's minimum,
\* and above it.
SeekBufferSizes == { 5, 17 }

\* The lengths of the slices handed to Read: short, and longer than the
\* buffers.
ReadSizes == { 1, 3, 18 }

\* The offsets handed to Seek, with every whence.
SeekOffsets == { I64(n) : n \in { -3, -1, 0, 1, 3, 16, 17, SrcLen, SrcLen + 1 } }

RECURSIVE Upto(_, _)
Upto(i, n) == IF i >= n THEN << >> ELSE << i >> \o Upto(i + 1, n)

InitSeek ==
    /\ value = 0
    /\ file = Upto(0, SrcLen)
    /\ \E bufferSize \in SeekBufferSizes :
         h = NewBufByteReadSeeker(file, 0, bufferSize)
    /\ res = [b |-> << >>, n |-> 0, err |-> NoErr, pos |-> 0]
    /\ op = "start"
    /\ nops = 0

\* r.Read(p) with len(p) = n
DoRead(n) ==
    /\ nops < MaxCalls
    /\ \E x \in { RRead(h, n) } :
           /\ h' = x.r
           /\ res' = [b |-> x.b, n |-> Len(x.b), err |-> x.err, pos |-> LogicalPos(h)]
           /\ value' = IF Len(x.b) = 0 THEN value
                       ELSE srcRead([src |-> file, upos |-> value], Len(x.b)).r.upos
    /\ op' = "Read"
    /\ nops' = nops + 1
    /\ UNCHANGED file

\* r.ReadByte()
DoReadByte ==
    /\ nops < MaxCalls
    /\ \E x \in { RReadByte(h) } :
           /\ h' = x.r
           /\ res' = [b |-> x.b, n |-> Len(x.b), err |-> x.err, pos |-> LogicalPos(h)]
           /\ value' = IF Len(x.b) = 0 THEN value
                       ELSE srcRead([src |-> file, upos |-> value], Len(x.b)).r.upos
    /\ op' = "ReadByte"
    /\ nops' = nops + 1
    /\ UNCHANGED file

\* r.Seek(offset, whence)
DoSeek(offset, whence) ==
    /\ nops < MaxCalls
    /\ \E x \in { RSeek(h, offset, whence) } :
           /\ h' = x.r
           /\ res' = [b |-> << >>, n |-> x.n, err |-> x.err, pos |-> LogicalPos(h)]
           /\ value' = srcSeek([src |-> file, upos |-> value], offset, whence).r.upos
    /\ op' = "Seek"
    /\ nops' = nops + 1
    /\ UNCHANGED file

NextSeek ==
    \/ \E n \in ReadSizes : DoRead(n)
    \/ DoReadByte
    \/ \E offset \in SeekOffsets, whence \in { SeekStart, SeekCurrent, SeekEnd } :
         DoSeek(offset, whence)

SpecSeek == InitSeek /\ [][NextSeek]_vars

\* C4: seek invariance.  After any calls of Read, ReadByte and Seek that leave
\* the reader at a logical position p before the end of the source, Read and
\* ReadByte return no error and at least one byte, and the bytes they return
\* are the source's bytes from position p on.
C4_SeekInvariance ==
    op \in { "Read", "ReadByte" } /\ res.pos < Len(file) =>
        /\ res.err = NoErr
        /\ res.n >= 1
        /\ res.b = SubSeq(file, res.pos + 1, res.pos + res.n)

-----------------------------------------------------------------------------
(* Specification SpecImpl: an array is written with WriteArray or a map    *)
(* with WriteObject, read from a ByteReadSeeker with ReadArray or          *)
(* ReadObject, and the descriptor is used by Index.                        *)
(*   value  the array or the map                                           *)
(*   file   the bytes written                                              *)
(*   h      [r, d, err]: the reader, and the descriptor and the error that *)
(*          ReadArray or ReadObject returned                               *)
(*   res    what the last Index returned, its arguments, and before, the   *)
(*          reader before the call                                         *)
(*   nops   the number of Index calls so far                               *)

\* The most Index calls on one descriptor.
MaxIndexCalls == 2

\* The buffer sizes handed to NewBufByteReadSeeker: 0 is the unbuffered
\* reader.
ImplBufferSizes == { 0, 5 }

\* The indexes handed to Array.Index: -1, 0, 1, 2, the largest int and the
\* smallest.
Indexes ==
    { I64(-1), U64(0), U64(1), U64(2),
      << 255, 255, 255, 255, 255, 255, 255, 127 >>,
      << 0, 0, 0, 0, 0, 0, 0, 128 >> }

\* The keys handed to Object.Index: the keys of the maps, and "k" and "0",
\* which no map has; "1", "0x1" and "k" hash to one bucket, "" and "0" to the
\* other.
LookupKeys == { << >>, << 49 >>, << 48, 120, 49 >>, << 107 >>, << 48 >> }

InitImpl ==
    /\ value \in { v \in Roots : v[1] \in { "array", "object" } }
    /\ file = << >>
    /\ h = [r |-> << >>, d |-> Nil, err |-> NoErr]
    /\ res = [err |-> NoErr]
    /\ op = "start"
    /\ nops = 0

\* WriteArray(w, array, gobEncoder) into an empty buffer
DoWriteArray ==
    /\ op = "start"
    /\ value[1] = "array"
    /\ \E v \in Orderings(value) :
         \E w \in { WriteArray(v[2]) } :
             /\ file' = w.b
             /\ res' = [err |-> w.err]
    /\ op' = "WriteArray"
    /\ UNCHANGED << value, h, nops >>

\* WriteObject(w, obj, gobEncoder) into an empty buffer
DoWriteObject ==
    /\ op = "start"
    /\ value[1] = "object"
    /\ \E v \in Orderings(value) :
         \E w \in { WriteObject(v[2]) } :
             /\ file' = w.b
             /\ res' = [err |-> w.err]
    /\ op' = "WriteObject"
    /\ UNCHANGED << value, h, nops >>

\* ReadArray(r) for r, err := NewBufByteReadSeeker(bytes.NewReader(file), bufferSize)
DoReadArray(bufferSize) ==
    /\ op = "WriteArray"
    /\ res.err = NoErr
    /\ \E x \in { ReadArray(NewBufByteReadSeeker(file, 0, bufferSize)) } :
           /\ h' = [r |-> x.r, d |-> x.v, err |-> x.err]
           /\ res' = [err |-> x.err]
    /\ op' = "ReadArray"
    /\ UNCHANGED << value, file, nops >>

\* ReadObject(r) for r, err := NewBufByteReadSeeker(bytes.NewReader(file), bufferSize)
DoReadObject(bufferSize) ==
    /\ op = "WriteObject"
    /\ res.err = NoErr
    /\ \E x \in { ReadObject(NewBufByteReadSeeker(file, 0, bufferSize)) } :
           /\ h' = [r |-> x.r, d |-> x.v, err |-> x.err]
           /\ res' = [err |-> x.err]
    /\ op' = "ReadObject"
    /\ UNCHANGED << value, file, nops >>

\* array.Index(i, recursive)
DoArrayIndex(i, recursive) ==
    /\ h.d[1] = "*Array"
    /\ nops < MaxIndexCalls
    /\ res.err # Panic
    /\ \E x \in { ArrayIndex(h.r, h.d[2], i, recursive) } :
           /\ h' = [h EXCEPT !.r = x.r]
           /\ res' = [v |-> x.v, err |-> x.err, i |-> i, recursive |-> recursive,
                      before |-> h.r]
    /\ op' = "Array.Index"
    /\ nops' = nops + 1
    /\ UNCHANGED << value, file >>

\* obj.Index(key, recursive)
DoObjectIndex(key, recursive) ==
    /\ h.d[1] = "*Object"
    /\ nops < MaxIndexCalls
    /\ res.err # Panic
    /\ \E x \in { ObjectIndex(h.r, h.d[2], key, recursive) } :
           /\ h' = [h EXCEPT !.r = x.r]
           /\ res' = [v |-> x.v, err |-> x.err, key |-> key, recursive |-> recursive,
                      before |-> h.r]
    /\ op' = "Object.Index"
    /\ nops' = nops + 1
    /\ UNCHANGED << value, file >>

NextImpl ==
    \/ DoWriteArray
    \/ DoWriteObject
    \/ \E bufferSize \in ImplBufferSizes : DoReadArray(bufferSize)
    \/ \E bufferSize \in ImplBufferSizes : DoReadObject(bufferSize)
    \/ \E i \in Indexes, recursive \in BOOLEAN : DoArrayIndex(i, recursive)
    \/ \E key \in LookupKeys, recursive \in BOOLEAN : DoObjectIndex(key, recursive)

SpecImpl == InitImpl /\ [][NextImpl]_vars

\* What a value returned by Index stands for: a descriptor stands for the
\* array or the map that an unbuffered reader of the same bytes reads from
\* it, another value for itself.
Materialize(bytes, v) ==
    IF v[1] = "*Array" THEN ArrayValue(NewBufByteReadSeeker(bytes, 0, 0), v[2]).v
    ELSE IF v[1] = "*Object" THEN ObjectValue(NewBufByteReadSeeker(bytes, 0, 0), v[2]).v
    ELSE v

\* C7: keyed lookup.  For every map written by WriteObject and every string
\* k, Object.Index(k, recursive) returns the value stored under k and no error
\* when the map has the key k, and nil and ErrNotFound when it has not.
C7_KeyedLookup ==
    op = "Object.Index" =>
        IF \E j \in 1..Len(value[2]) : value[2][j][1] = res.key
        THEN /\ res.err = NoErr
             /\ Materialize(file, res.v) = Widen(EntryOf(value[2], res.key, 1))
        ELSE res.v = Nil /\ res.err = ErrNotFound

\* C8: array indexing.  For an array of length N, Array.Index(i, recursive)
\* with i < 0 or i >= N returns nil and the BoundsError of N and i and leaves
\* the reader as it was; with 0 <= i < N it returns element i of the array
\* written and no error.
C8_ArrayIndex ==
    op = "Array.Index" =>
        IF IsNeg(res.i) \/ ~SLess(res.i, U64(Len(value[2])))
        THEN /\ res.v = Nil
             /\ res.err = BoundsError(Len(value[2]), res.i)
             /\ h.r = res.before
        ELSE /\ res.err = NoErr
             /\ Materialize(file, res.v) = Widen(value[2][ToNat(res.i) + 1])

-----------------------------------------------------------------------------
(* Specification SpecGob: a value with gob-encoded parts is written with   *)
(* Write, the bytes are opened with New, and the instance is asked with    *)
(* QueryGob.  Variables as under Spec; res.target is what the v handed to  *)
(* QueryGob points to afterwards.                                          *)

\* A value of a type outside the core types is <<"struct", e>>, e what the
\* gob encoder returns for it; the decoder takes e back to the value.
gobDecoder(gob) == [v |-> << "struct", gob >>, err |-> NoErr]

\* Hashive.QueryGob(v, path...): target is what v points to before the call.
QueryGob(hv, target, path) ==
    Only({ IF q.err # NoErr THEN [r |-> q.r, target |-> target, err |-> q.err]
           ELSE IF q.v[1] = "GobValue"
           THEN Only({ [r |-> q.r, target |-> d.v, err |-> d.err]
                       : d \in { gobDecoder(q.v[2]) } })
           ELSE [r |-> q.r, target |-> target, err |-> ErrNotFound]
           : q \in { Query(hv, path) } })

\* A struct whose encoding is 12 bytes long.
LongGob == << "struct", LongString >>

\* The values of the containers: a struct of 2 bytes, "b", and an array of a
\* long struct.
GobElems ==
    { << "struct", << 3, 255 >> >>,
      << "string", << 98 >> >>,
      << "array", << LongGob >> >> }

GobRoots == { LongGob } \cup GobElems \cup Containers(GobElems, MaxLen)

InitGob ==
    /\ value \in GobRoots
    /\ file = << >>
    /\ h = Nil
    /\ res = [err |-> NoErr]
    /\ op = "start"
    /\ nops = 0

\* h.QueryGob(&target, path...) with target nil before the call
DoQueryGob(path) ==
    /\ op \in { "opened", "gob" }
    /\ h[1] = "*Hashive"
    /\ nops < MaxQueries
    /\ \E q \in { QueryGob(h[2], Nil, path) } :
           /\ res' = [target |-> q.target, err |-> q.err, path |-> path]
           /\ h' = << "*Hashive", [h[2] EXCEPT !.r = q.r] >>
    /\ op' = "gob"
    /\ nops' = nops + 1
    /\ UNCHANGED << value, file >>

NextGob ==
    \/ DoWrite
    \/ \E readBufferSize \in BufferSizes : DoNew(readBufferSize)
    \/ \E path \in Paths : DoQueryGob(path)

SpecGob == InitGob /\ [][NextGob]_vars

\* C11: QueryGob.  The path is resolved as h[k1][k2]... over the value
\* written; when the element is a gob-encoded value the decoder is handed the
\* bytes the encoder returned for it and QueryGob returns no error; when the
\* element is of another type, or there is none, QueryGob returns an error
\* (ErrNotFound for an element of another type) and the target is untouched.
C11_QueryGob ==
    op = "gob" =>
        LET elem == Walk(Widen(value), res.path)
        IN  IF elem.found /\ elem.v[1] = "struct"
            THEN res.err = NoErr /\ res.target = elem.v
            ELSE /\ res.target = Nil
                 /\ res.err # NoErr
                 /\ elem.found => res.err = ErrNotFound

-----------------------------------------------------------------------------
(* Specification SpecOpen: a value is written with Write, the bytes are    *)
(* cut short or one of them is overwritten, and New is called on what is   *)
(* left.  Variables as under Spec.                                         *)

\* The values written: every scalar, and every scalar in a container of its
\* own.
OpenRoots == Scalars \cup Containers(Scalars, 1)

\* A byte that is no byte of the signature and no type marker.
Junk == << 15 >>

InitOpen ==
    /\ value \in OpenRoots
    /\ file = << >>
    /\ h = Nil
    /\ res = [err |-> NoErr]
    /\ op = "start"
    /\ nops = 0

\* The source ends after its first n bytes.
DoTruncate(n) ==
    /\ op = "written"
    /\ n < Len(file)
    /\ file' = SubSeq(file, 1, n)
    /\ op' = "damaged"
    /\ UNCHANGED << value, h, res, nops >>

\* Byte i of the source is another byte.
DoOverwrite(i) ==
    /\ op = "written"
    /\ i <= Len(file)
    /\ file' = SubSeq(file, 1, i - 1) \o Junk \o SubSeq(file, i + 1, Len(file))
    /\ op' = "damaged"
    /\ UNCHANGED << value, h, res, nops >>

\* New(bytes.NewReader(file), readBufferSize) on the bytes written or on what
\* is left of them.
DoOpen(readBufferSize) ==
    /\ op \in { "written", "damaged" }
    /\ \E n \in { New(file, readBufferSize) } :
           /\ h' = n.h
           /\ res' = [err |-> n.err]
    /\ op' = "opened"
    /\ UNCHANGED << value, file, nops >>

NextOpen ==
    \/ DoWrite
    \/ \E n \in 0..(Len(file) - 1) : DoTruncate(n)
    \/ \E i \in 1..(Len(fileSignature) + 1) : DoOverwrite(i)
    \/ \E readBufferSize \in BufferSizes : DoOpen(readBufferSize)

SpecOpen == InitOpen /\ [][NextOpen]_vars

\* C12: the signature.  What Write returns is the 8 bytes "hashive\0" and
\* then the encoding of the value; and New on a source whose first 8 bytes
\* are not those (also a source of fewer than 8 bytes) returns the nil
\* instance and an error.
C12_Signature ==
    /\ op = "written" =>
         /\ Len(file) >= 8
         /\ SubSeq(file, 1, 8) = << 104, 97, 115, 104, 105, 118, 101, 0 >>
         /\ \E v \in Orderings(value) : SubSeq(file, 9, Len(file)) = WriteValue(v).b
    /\ op = "opened" /\ SubSeq(file, 1, Min(8, Len(file)))
                            # << 104, 97, 115, 104, 105, 118, 101, 0 >> =>
         h = Nil /\ res.err # NoErr

\* New has refused a source of 8 bytes and more whose signature is wrong.
C12_Refused ==
    /\ op = "opened"
    /\ Len(file) > 8
    /\ SubSeq(file, 1, 8) # << 104, 97, 115, 104, 105, 118, 101, 0 >>
    /\ h = Nil
    /\ res.err = Errorf("invalid signature")

\* C13: errors at open.  When the signature is right and the root cannot be
\* decoded (the source ends where the root's marker should be, or the header
\* of a root object or of a root array cannot be read), New returns the nil
\* instance and an error.
C13_OpenErrors ==
    op = "opened" /\ Len(file) >= 8 /\ SubSeq(file, 1, 8) = fileSignature =>
        LET r == NewBufByteReadSeeker(file, 8, 0)
            unreadable ==
                \/ Len(file) = 8
                \/ /\ Len(file) > 8
                   /\ \/ MarkerType(file[9]) = typeObject /\ ReadObject(r).err # NoErr
                      \/ MarkerType(file[9]) = typeArray /\ ReadArray(r).err # NoErr
        IN  unreadable => h = Nil /\ res.err # NoErr

-----------------------------------------------------------------------------
(* More properties under Spec.                                             *)

\* C14: a scalar root.  When the value written is a scalar, New returns an
\* instance and no error, the instance has neither an object nor an array
\* descriptor, Query with the empty path returns the scalar (an integer as
\* int64 or uint64), and Query with any other path returns nil and
\* ErrNotFound.
C14_ScalarRoot ==
    value \in Scalars =>
        /\ op = "opened" =>
             /\ res.err = NoErr
             /\ h[1] = "*Hashive"
             /\ h[2].obj = Nil
             /\ h[2].ary = Nil
        /\ op = "queried" /\ res.path = << >> =>
             res.err = NoErr /\ res.v = Widen(value)
        /\ op = "queried" /\ res.path # << >> =>
             res.v = Nil /\ res.err = ErrNotFound

-----------------------------------------------------------------------------
(* More properties under SpecImpl.                                         *)

\* C15: the bucket count.  For every map of N entries written by
\* WriteObject, the bucket count in the bytes written is a prime and is at
\* least 4N/3 rounded up.
C15_BucketCount ==
    op = "WriteObject" =>
        LET d == ReadObject(NewBufByteReadSeeker(file, 0, 0))
        IN  /\ d.err = NoErr
            /\ IsPrime(d.v[2].bucketCount)
            /\ 3 * d.v[2].bucketCount >= 4 * Len(value[2])

-----------------------------------------------------------------------------
(* Specification SpecLayout: arrays and maps of nil and of strings of      *)
(* three lengths are written with WriteArray and WriteObject and read with *)
(* ReadArray and ReadObject.  Variables as under SpecImpl.                 *)

\* The length of a string that takes the offsets past one byte.
MidLen == 250

\* The length of a string that takes the offsets past two bytes.
BigLen == 65533

\* nil, "0", and the strings of MidLen and of BigLen bytes "0"
LayoutElems ==
    { Nil,
      << "string", << 48 >> >>,
      << "string", [i \in 1..MidLen |-> 48] >>,
      << "string", [i \in 1..BigLen |-> 48] >> }

LayoutRoots == Containers(LayoutElems, 2)

InitLayout ==
    /\ value \in LayoutRoots
    /\ file = << >>
    /\ h = [r |-> << >>, d |-> Nil, err |-> NoErr]
    /\ res = [err |-> NoErr]
    /\ op = "start"
    /\ nops = 0

NextLayout ==
    \/ DoWriteArray
    \/ DoWriteObject
    \/ \E bufferSize \in ImplBufferSizes : DoReadArray(bufferSize)
    \/ \E bufferSize \in ImplBufferSizes : DoReadObject(bufferSize)

SpecLayout == InitLayout /\ [][NextLayout]_vars

\* The largest offset of a container before the size of the offset table is
\* added: the last entry of the table of count entries of width size at pos,
\* less count * size.
LargestOffset(pos, count, size) ==
    IF count = 0 THEN 0
    ELSE ToNat(readFixedUint(NewBufByteReadSeeker(file, pos + (count - 1) * size, 0),
                             size).v) - count * size

\* C16: the offset width.  For every array and map written, the width W in
\* the high half of the marker is 1, 2, 4 or 8; the length and the offsets
\* written in W bytes are the array's or map's own (reading through them
\* gives the value written back); and for no smaller width W' of those four
\* does the largest offset plus count * W' fit W' bytes.
C16_OffsetWidth ==
    op \in { "WriteArray", "WriteObject" } /\ res.err = NoErr =>
        LET W == MarkerOffsetSize(file[1])
            x == IF op = "WriteArray" THEN ReadArray(NewBufByteReadSeeker(file, 0, 0))
                 ELSE ReadObject(NewBufByteReadSeeker(file, 0, 0))
            count == IF op = "WriteArray" THEN x.v[2].length ELSE x.v[2].bucketCount
        IN  /\ W \in { 1, 2, 4, 8 }
            /\ x.err = NoErr
            /\ Materialize(file, x.v) = Widen(value)
            /\ \A small \in { 1, 2, 4, 8 } :
                   small < W =>
                       ~FitsBytes(U64(LargestOffset(x.v[2].pos, count, W) + count * small),
                                  small)

-----------------------------------------------------------------------------
(* Specification SpecVarint: a uint64 is written with writeUintValue and   *)
(* read with readUintValue; readUintValue also reads byte sequences that   *)
(* writeUintValue does not write.                                          *)
(*   value  <<"uint64", n>>, or <<"bytes", b>> for bytes to be read only   *)
(*   file   the bytes written, or the bytes to be read                     *)
(*   res    what readUintValue returned, and where it left the reader      *)

\* The uint64 values up to EdgeSpan from 0, from 127 and 128, and from the
\* powers of 256 on either side.
VarintInputs ==
    UNION { { U64(j), U64(127 - j), U64(128 + j) }
            \cup { Add64([i \in 1..8 |-> IF i = k + 1 THEN 1 ELSE 0], U64(j)) : k \in 0..7 }
            \cup { << 255 - j >> \o Rep(255, k - 1) \o Rep(0, 8 - k) : k \in 1..8 } :
            j \in 0..EdgeSpan }

\* The first byte 256 - K and K bytes, for K in 1..8: all of them fill but
\* one of them hot, the fill 0 or 255.
VarintForms ==
    UNION { { << 256 - K >> \o [i \in 1..K |-> IF i = hot THEN b ELSE fill] :
              hot \in 1..K, b \in { 0, 1, 128, 255 }, fill \in { 0, 255 } } :
            K \in 1..8 }

\* A byte that follows the integer in the source.
Trailer == << 77 >>

InitVarint ==
    /\ \/ /\ value \in { << "uint64", n >> : n \in VarintInputs }
          /\ file = << >>
          /\ op = "start"
       \/ /\ value \in { << "bytes", b >> : b \in VarintForms }
          /\ file \in { value[2], value[2] \o Trailer }
          /\ op = "bytes"
    /\ h = Nil
    /\ res = [err |-> NoErr]
    /\ nops = 0

\* writeUintValue(w, n) into an empty buffer
DoWriteUintValue ==
    /\ op = "start"
    /\ file' = writeUintValue(value[2])
    /\ op' = "writeUintValue"
    /\ UNCHANGED << value, h, res, nops >>

\* one more byte is written after the integer
DoWriteTrailer ==
    /\ op = "writeUintValue"
    /\ file' = file \o Trailer
    /\ op' = "trailer"
    /\ UNCHANGED << value, h, res, nops >>

\* readUintValue(r), r a reader at the start of the bytes
DoReadUintValue(bufferSize) ==
    /\ op \in { "writeUintValue", "trailer", "bytes" }
    /\ \E x \in { readUintValue(NewBufByteReadSeeker(file, 0, bufferSize)) } :
           res' = [v |-> x.v, err |-> x.err, pos |-> LogicalPos(x.r)]
    /\ op' = "readUintValue"
    /\ UNCHANGED << value, file, h, nops >>

NextVarint ==
    \/ DoWriteUintValue
    \/ DoWriteTrailer
    \/ \E bufferSize \in ImplBufferSizes : DoReadUintValue(bufferSize)

SpecVarint == InitVarint /\ [][NextVarint]_vars

\* The number of the highest byte of n that is not zero, 1 for n = 0: the
\* smallest number of bytes n fits in.
ByteCount(n) == CHOOSE k \in 1..8 : (k = 1 \/ n[k] # 0) /\ \A i \in (k + 1)..8 : n[i] = 0

\* C17: the variable-length encoding is minimal.  writeUintValue writes the
\* single byte n for n <= 127, and otherwise the byte 256 - K and the K low
\* bytes of n, least significant first, K the smallest number of bytes n fits
\* in: 254 is FF FE, 256 is FE 00 01, 65536 is FD 00 00 01, 2^32 is
\* FB 00 00 00 00 01.
C17_VarintMinimal ==
    op = "writeUintValue" =>
        LET n == value[2]
            K == ByteCount(n)
        IN  /\ IF K = 1 /\ n[1] <= 127
               THEN file = << n[1] >>
               ELSE /\ Len(file) = K + 1
                    /\ file[1] = 256 - K
                    /\ \A i \in 1..K : file[i + 1] = n[i]
            /\ n = U64(254) => file = << 255, 254 >>
            /\ n = U64(256) => file = << 254, 0, 1 >>
            /\ n = U64(65536) => file = << 253, 0, 0, 1 >>
            /\ n = << 0, 0, 0, 0, 1, 0, 0, 0 >> => file = << 251, 0, 0, 0, 0, 1 >>

\* 2^32 has been written as FB 00 00 00 00 01.
C17_FiveBytes ==
    /\ op = "writeUintValue"
    /\ value[2] = << 0, 0, 0, 0, 1, 0, 0, 0 >>
    /\ file = << 251, 0, 0, 0, 0, 1 >>

\* C18: reading inverts writing and takes the forms writing does not
\* produce.  readUintValue of the bytes writeUintValue(n) wrote returns n and
\* leaves the reader right after them; for a first byte 256 - K, K in 1..8,
\* and K bytes it returns those K bytes as a little-endian number extended
\* with zeros to 64 bits.
C18_VarintInverse ==
    op = "readUintValue" =>
        /\ res.err = NoErr
        /\ value[1] = "uint64" =>
               /\ res.v = value[2]
               /\ res.pos = Len(writeUintValue(value[2]))
               /\ res.pos \in { Len(file), Len(file) - 1 }
        /\ value[1] = "bytes" =>
               LET K == 256 - value[2][1]
               IN  /\ K \in 1..8
                   /\ \A i \in 1..8 :
                          res.v[i] = IF i <= K THEN value[2][i + 1] ELSE 0
                   /\ res.pos = K + 1

\* The four bytes FC 00 00 01 00, which writeUintValue does not write for
\* 65536, have been read as 65536 from a source that goes on after them.
C18_NonMinimalRead ==
    /\ op = "readUintValue"
    /\ value = << "bytes", << 252, 0, 0, 1, 0 >> >>
    /\ writeUintValue(res.v) # value[2]
    /\ Len(file) = 6
    /\ res = [v |-> U64(65536), err |-> NoErr, pos |-> 5]

-----------------------------------------------------------------------------
(* Specification SpecPrime: nearestPrime, the one that also returns        *)
(* smaller, is called with an int, a 64-bit word.                          *)
(*   value  <<"int", n>>                                                   *)
(*   res    what nearestPrime returned: prime, smaller, and Panic in err   *)
(*          when it panicked                                               *)

\* The arguments from 0 go up to SmallSpan.
SmallSpan == 60

\* The arguments from math.MaxInt go down to math.MaxInt + 1 - TopSpan.
TopSpan == 48

\* 2^63 - g, for g in 1..256
Top(g) == << 256 - g, 255, 255, 255, 255, 255, 255, 127 >>

\* The g in 1..256 for which 2^63 - g is prime: 9223372036854775783 and
\* 9223372036854775643.
TopPrimeGaps == { 25, 165 }

\* isPrimeMillerRabin: big.Int.ProbablyPrime(12), which is exact below 2^64.
\* What it returns is known here for the numbers below 2^30 and for the 256
\* largest.
isPrimeMillerRabin(n) ==
    IF FitsNat(n) THEN IsPrime(ToNat(n))
    ELSE \E g \in TopPrimeGaps : n = Top(g)

RECURSIVE nearestPrimeUp(_)
\* for i := n; i > 0 && i <= math.MaxInt; i++: i++ of math.MaxInt wraps to
\* the smallest int, and i <= math.MaxInt holds for every int.
nearestPrimeUp(i) ==
    IF IsNeg(i) \/ i = U64(0) THEN [found |-> FALSE, prime |-> U64(0)]
    ELSE IF isPrimeMillerRabin(i) THEN [found |-> TRUE, prime |-> i]
    ELSE nearestPrimeUp(Add64(i, U64(1)))

RECURSIVE nearestPrimeDown(_)
\* for i := n; i > 2; i--
nearestPrimeDown(i) ==
    IF ~SLess(U64(2), i) THEN [found |-> FALSE, prime |-> U64(0)]
    ELSE IF isPrimeMillerRabin(i) THEN [found |-> TRUE, prime |-> i]
    ELSE nearestPrimeDown(Add64(i, Not64(U64(0))))

\* nearestPrime without smaller: the prime found downwards is returned like
\* one found upwards.
nearestPrimeNoFlag(n) ==
    IF IsNeg(n) THEN [prime |-> U64(0), smaller |-> FALSE, err |-> Panic]
    ELSE IF ~SLess(U64(2), n) THEN [prime |-> U64(2), smaller |-> FALSE, err |-> NoErr]
    ELSE Only({
        IF up.found THEN [prime |-> up.prime, smaller |-> FALSE, err |-> NoErr]
        ELSE Only({
            IF down.found THEN [prime |-> down.prime, smaller |-> FALSE, err |-> NoErr]
            ELSE [prime |-> U64(0), smaller |-> FALSE, err |-> Panic]
            : down \in { nearestPrimeDown(n) } })
        : up \in { nearestPrimeUp(n) } })

\* nearestPrime(n int) (prime int, smaller bool)
nearestPrimeSmaller(n) ==
    IF IsNeg(n) THEN [prime |-> U64(0), smaller |-> FALSE, err |-> Panic]
    ELSE IF ~SLess(U64(2), n) THEN [prime |-> U64(2), smaller |-> FALSE, err |-> NoErr]
    ELSE Only({
        IF up.found THEN [prime |-> up.prime, smaller |-> FALSE, err |-> NoErr]
        ELSE Only({
            IF down.found THEN [prime |-> down.prime, smaller |-> TRUE, err |-> NoErr]
            ELSE [prime |-> U64(0), smaller |-> FALSE, err |-> Panic]
            : down \in { nearestPrimeDown(n) } })
        : up \in { nearestPrimeUp(n) } })

PrimeInputs ==
    { U64(k) : k \in 0..SmallSpan }
    \cup { Top(g) : g \in 1..TopSpan }
    \cup { Not64(U64(0)) }

InitPrime ==
    /\ value \in { << "int", n >> : n \in PrimeInputs }
    /\ file = << >>
    /\ h = Nil
    /\ res = [err |-> NoErr]
    /\ op = "start"
    /\ nops = 0

\* nearestPrime(n)
DoNearestPrime ==
    /\ op = "start"
    /\ res' = nearestPrimeSmaller(value[2])
    /\ op' = "nearestPrime"
    /\ UNCHANGED << value, file, h, nops >>

NextPrime == DoNearestPrime

SpecPrime == InitPrime /\ [][NextPrime]_vars

\* The primes among the ints the arguments and the results are taken from.
KnownPrimes ==
    { U64(k) : k \in { j \in 0..(2 * SmallSpan + 2) : IsPrime(j) } }
    \cup { Top(g) : g \in TopPrimeGaps }

\* C19: nearestPrime(n) for n >= 0.  It returns 2 for n <= 2; otherwise the
\* smallest prime p >= n with smaller = false when the ints hold such a
\* prime, and the largest prime p <= n with smaller = true when they do
\* not; what it returns is always prime.
C19_NearestPrime ==
    op = "nearestPrime" /\ ~IsNeg(value[2]) =>
        LET n == value[2]
            above == { p \in KnownPrimes : ~SLess(p, n) }
            below == { p \in KnownPrimes : ~SLess(n, p) }
        IN  /\ res.err = NoErr
            /\ res.prime \in KnownPrimes
            /\ IF ~SLess(U64(2), n)
               THEN res.prime = U64(2) /\ ~res.smaller
               ELSE IF above # { }
               THEN /\ res.prime \in above
                    /\ \A p \in above : ~SLess(p, res.prime)
                    /\ ~res.smaller
               ELSE /\ res.prime \in below
                    /\ \A p \in below : ~SLess(res.prime, p)
                    /\ res.smaller

\* nearestPrime(9223372036854775784), one more than the largest prime of
\* int, has returned that prime and smaller = true.
C19_ScanRanPast ==
    /\ op = "nearestPrime"
    /\ value[2] = Top(24)
    /\ res = [prime |-> Top(25), smaller |-> TRUE, err |-> NoErr]

-----------------------------------------------------------------------------
(* Specification SpecRace: a map is written with Write and opened with     *)
(* New, and two goroutines each call Query(key) on the one instance.  A    *)
(* step of a goroutine is one call on the instance's reader h.r; the steps *)
(* of the two calls interleave.                                            *)
(*   h      the instance; h.r is the one reader both calls use             *)
(*   res.q  for each goroutine where its call stands (pc), the locals of   *)
(*          Object.Index, what Query returned (v, err), the reader as it   *)
(*          was when the call began (r0) and as the goroutine's last step  *)
(*          left it (r), and whether a step of the goroutine found the     *)
(*          reader other than it had left it (disturbed)                   *)
(*   nops   the number of calls begun                                      *)

Goroutines == { 1, 2 }

\* The maps of MaxLen entries in which the value of a key is the string of
\* the key and "b".
RaceRoots ==
    { << "object", [i \in 1..Len(e) |-> << e[i][1], << "string", e[i][1] \o << 98 >> >> >>] >> :
      e \in EntriesOf(1, { Nil }, MaxLen) }

\* The keys queried: "1" and "k", which no map has.
RaceKeys == { << 49 >>, << 107 >> }

NotCalled ==
    [pc |-> "idle", key |-> << >>, offset |-> U64(0), left |-> 0, bucketKey |-> << >>,
     valueSize |-> U64(0), v |-> Nil, err |-> NoErr, r0 |-> << >>, r |-> << >>,
     disturbed |-> FALSE]

Running(l) == l.pc \notin { "idle", "done" }

Return(l, v, err) == [l EXCEPT !.pc = "done", !.v = v, !.err = err]

\* IndexStep with the seek over a value taken from the start of the source.
IndexStepSkipFromStart(r, obj, l) ==
    CASE l.pc = "seekEntry" ->
           Only({ [r |-> s.r,
                   l |-> IF s.err # NoErr THEN Return(l, Nil, s.err)
                         ELSE [l EXCEPT !.pc = "readOffset"]]
                  : s \in { RSeek(r, U64(obj.pos + Mod64(stringHash(l.key), obj.bucketCount)
                                                   * obj.offsetSize), SeekStart) } })
      [] l.pc = "readOffset" ->
           Only({ [r |-> x.r,
                   l |-> IF x.err # NoErr THEN Return(l, Nil, x.err)
                         ELSE IF OverMaxInt64(x.v) THEN Return(l, Nil, Errorf("invalid offset"))
                         ELSE [l EXCEPT !.pc = "seekBucket", !.offset = x.v]]
                  : x \in { readFixedUint(r, obj.offsetSize) } })
      [] l.pc = "seekBucket" ->
           Only({ [r |-> s.r,
                   l |-> IF s.err # NoErr THEN Return(l, Nil, s.err)
                         ELSE [l EXCEPT !.pc = "readListLen"]]
                  : s \in { RSeek(r, Add64(U64(obj.pos), l.offset), SeekStart) } })
      [] l.pc = "readListLen" ->
           Only({ [r |-> n.r,
                   l |-> IF n.err # NoErr THEN Return(l, Nil, n.err)
                         ELSE IF Clamp(n.v) = 0 THEN Return(l, Nil, ErrNotFound)
                         ELSE [l EXCEPT !.pc = "readKey", !.left = Clamp(n.v)]]
                  : n \in { readUintValue(r) } })
      [] l.pc = "readKey" ->
           Only({ [r |-> k.r,
                   l |-> IF k.err # NoErr THEN Return(l, Nil, k.err)
                         ELSE [l EXCEPT !.pc = "readSize", !.bucketKey = k.v]]
                  : k \in { readStringValue(r) } })
      [] l.pc = "readSize" ->
           Only({ [r |-> size.r,
                   l |-> IF size.err # NoErr THEN Return(l, Nil, size.err)
                         ELSE IF l.key = l.bucketKey THEN [l EXCEPT !.pc = "readValue"]
                         ELSE [l EXCEPT !.pc = "skip", !.valueSize = size.v]]
                  : size \in { readUintValue(r) } })
      [] l.pc = "readValue" ->
           Only({ [r |-> x.r, l |-> Return(l, x.v, x.err)]
                  : x \in { ReadValue(r, TRUE) } })
      [] l.pc = "skip" ->
           Only({ [r |-> s.r,
                   l |-> IF s.err # NoErr THEN Return(l, Nil, s.err)
                         ELSE IF l.left = 1 THEN Return(l, Nil, ErrNotFound)
                         ELSE [l EXCEPT !.pc = "readKey", !.left = l.left - 1]]
                  : s \in { RSeek(r, l.valueSize, SeekStart) } })

\* Object.Index with the locals l, one call on the reader at a time: the seek
\* to the entry of the offset table, the read of the offset, the seek to the
\* bucket, the read of the list length, and for each entry of the list the
\* read of its key and of its size and then the read of the value or the seek
\* over it.  Returns the reader and the locals after the call.
IndexStep(r, obj, l) ==
    CASE l.pc = "seekEntry" ->
           Only({ [r |-> s.r,
                   l |-> IF s.err # NoErr THEN Return(l, Nil, s.err)
                         ELSE [l EXCEPT !.pc = "readOffset"]]
                  : s \in { RSeek(r, U64(obj.pos + Mod64(stringHash(l.key), obj.bucketCount)
                                                   * obj.offsetSize), SeekStart) } })
      [] l.pc = "readOffset" ->
           Only({ [r |-> x.r,
                   l |-> IF x.err # NoErr THEN Return(l, Nil, x.err)
                         ELSE IF OverMaxInt64(x.v) THEN Return(l, Nil, Errorf("invalid offset"))
                         ELSE [l EXCEPT !.pc = "seekBucket", !.offset = x.v]]
                  : x \in { readFixedUint(r, obj.offsetSize) } })
      [] l.pc = "seekBucket" ->
           Only({ [r |-> s.r,
                   l |-> IF s.err # NoErr THEN Return(l, Nil, s.err)
                         ELSE [l EXCEPT !.pc = "readListLen"]]
                  : s \in { RSeek(r, Add64(U64(obj.pos), l.offset), SeekStart) } })
      [] l.pc = "readListLen" ->
           Only({ [r |-> n.r,
                   l |-> IF n.err # NoErr THEN Return(l, Nil, n.err)
                         ELSE IF Clamp(n.v) = 0 THEN Return(l, Nil, ErrNotFound)
                         ELSE [l EXCEPT !.pc = "readKey", !.left = Clamp(n.v)]]
                  : n \in { readUintValue(r) } })
      [] l.pc = "readKey" ->
           Only({ [r |-> k.r,
                   l |-> IF k.err # NoErr THEN Return(l, Nil, k.err)
                         ELSE [l EXCEPT !.pc = "readSize", !.bucketKey = k.v]]
                  : k \in { readStringValue(r) } })
      [] l.pc = "readSize" ->
           Only({ [r |-> size.r,
                   l |-> IF size.err # NoErr THEN Return(l, Nil, size.err)
                         ELSE IF l.key = l.bucketKey THEN [l EXCEPT !.pc = "readValue"]
                         ELSE [l EXCEPT !.pc = "skip", !.valueSize = size.v]]
                  : size \in { readUintValue(r) } })
      [] l.pc = "readValue" ->
           Only({ [r |-> x.r, l |-> Return(l, x.v, x.err)]
                  : x \in { ReadValue(r, TRUE) } })
      [] l.pc = "skip" ->
           Only({ [r |-> s.r,
                   l |-> IF s.err # NoErr THEN Return(l, Nil, s.err)
                         ELSE IF l.left = 1 THEN Return(l, Nil, ErrNotFound)
                         ELSE [l EXCEPT !.pc = "readKey", !.left = l.left - 1]]
                  : s \in { RSeek(r, l.valueSize, SeekCurrent) } })

InitRace ==
    /\ value \in RaceRoots
    /\ file = << >>
    /\ h = Nil
    /\ res = [err |-> NoErr]
    /\ op = "start"
    /\ nops = 0

\* Goroutine g calls h.Query(key): the path is not empty and h.obj is not
\* nil, so queryObject calls h.obj.Index(key, true), which comes to its first
\* call on the reader.  The goroutines are numbered in the order of their
\* calls.
DoCall(g, key) ==
    /\ op \in { "opened", "running" }
    /\ op = "opened" => g = 1
    /\ h[1] = "*Hashive"
    /\ h[2].obj[1] = "*Object"
    /\ h[2].obj[2].bucketCount > 0
    /\ op = "running" => res.q[g].pc = "idle"
    /\ res' = [err |-> NoErr,
               q |-> [p \in Goroutines |->
                        IF p = g
                        THEN [NotCalled EXCEPT !.pc = "seekEntry", !.key = key,
                                               !.r0 = h[2].r, !.r = h[2].r]
                        ELSE IF op = "running" THEN res.q[p] ELSE NotCalled]]
    /\ op' = "running"
    /\ nops' = nops + 1
    /\ UNCHANGED << value, file, h >>

\* Goroutine g makes the next call on the reader of its Query.
DoStep(g) ==
    /\ op = "running"
    /\ Running(res.q[g])
    /\ \E x \in { IndexStep(h[2].r, h[2].obj[2], res.q[g]) } :
           /\ h' = << "*Hashive", [h[2] EXCEPT !.r = x.r] >>
           /\ res' = [res EXCEPT !.q[g] =
                        [x.l EXCEPT !.r = x.r,
                                    !.disturbed = @ \/ h[2].r # res.q[g].r]]
    /\ UNCHANGED << value, file, op, nops >>

NextRace ==
    \/ DoWrite
    \/ \E readBufferSize \in ImplBufferSizes : DoNew(readBufferSize)
    \/ \E g \in Goroutines, key \in RaceKeys : DoCall(g, key)
    \/ \E g \in Goroutines : DoStep(g)

SpecRace == InitRace /\ [][NextRace]_vars

\* What the call of goroutine g returns when no other call runs during it:
\* Query(key) on the instance with the reader as it was when the call began.
Solo(g) ==
    LET x == Query([h[2] EXCEPT !.r = res.q[g].r0], << res.q[g].key >>)
    IN  << x.v, x.err >>

-----------------------------------------------------------------------------
(* Specification SpecSizes: the writers with every buffer kept as the      *)
(* number of bytes in it, a 64-bit word, for values too large to be        *)
(* written out byte by byte.  A value is <<"blob", n>>, a scalar whose     *)
(* encoding is n bytes long, an "array" or an "object" of such values.     *)
(*   value  the value handed to the writer                                 *)
(*   res    the number of bytes the writer wrote (n) and its error         *)

RECURSIVE growOffsetSize64(_, _, _)
\* The loop of growOffsetSize for a max offset that is a 64-bit word.
growOffsetSize64(maxOffset, count, offsetSize) ==
    IF offsetSize < fixedUintSize(Add64(maxOffset, U64(count * offsetSize)))
    THEN IF (offsetSize * 2) % 256 > 8
         THEN [size |-> (offsetSize * 2) % 256, err |-> Errorf("invalid offset size")]
         ELSE growOffsetSize64(maxOffset, count, (offsetSize * 2) % 256)
    ELSE [size |-> offsetSize, err |-> NoErr]

\* What is written for a container of count offsets and n bytes of data:
\* nothing when no offset size was found, else the marker, the length or the
\* bucket count in headLen bytes, the offsets and the data.
LaidLen(count, n, g, headLen) ==
    IF g.err # NoErr THEN [n |-> U64(0), err |-> g.err]
    ELSE [n |-> Add64(U64(1 + headLen + count * g.size), n), err |-> NoErr]

RECURSIVE WriteValueLen(_)
RECURSIVE elemsLen(_, _, _, _)
RECURSIVE listLen(_, _, _)
RECURSIVE bucketsLen(_, _, _, _)

\* The loop of WriteArray over the elements from i on: offsets[i] is the
\* length of the data before element i; the error of WriteValue is not looked
\* at.  Returns the last offset and the length of the data.
elemsLen(array, i, last, n) ==
    IF i > Len(array) THEN [maxOffset |-> last, n |-> n]
    ELSE elemsLen(array, i + 1, n, Add64(n, WriteValueLen(array[i]).n))

\* WriteArray
WriteArrayLen(array) ==
    Only({ Only({ LaidLen(Len(array), e.n, g, g.size)
                  : g \in { growOffsetSize64(e.maxOffset, Len(array),
                                             fixedUintSize(e.maxOffset)) } })
           : e \in { elemsLen(array, 1, U64(0), U64(0)) } })

\* The loop of WriteObject over the entries of one bucket from j on, n the
\* length of the bucket data so far: the key, the size of the value and the
\* value; the error of WriteValue is not looked at.
listLen(list, j, n) ==
    IF j > Len(list) THEN n
    ELSE Only({ listLen(list, j + 1,
                        Add64(Add64(n, U64(Len(writeBinaryValue(list[j][1])))),
                              Add64(U64(Len(writeUintValue(valueData))), valueData)))
                : valueData \in { WriteValueLen(list[j][2]).n } })

\* The loop of WriteObject over the buckets from i on.
bucketsLen(buckets, i, last, n) ==
    IF i > Len(buckets) THEN [maxOffset |-> last, n |-> n]
    ELSE bucketsLen(buckets, i + 1, n,
                    listLen(buckets[i], 1,
                            Add64(n, U64(Len(writeUintValue(U64(Len(buckets[i]))))))))

\* WriteObject, from the buckets on
WriteBucketsLen(buckets) ==
    Only({ LaidLen(Len(buckets), d.n,
                   growOffsetSize64(d.maxOffset, Len(buckets), fixedUintSize(d.maxOffset)),
                   Len(writeUintValue(U64(Len(buckets)))))
           : d \in { bucketsLen(buckets, 1, U64(0), U64(0)) } })

\* WriteObject
WriteObjectLen(obj) ==
    Only({ IF g.avgOverflow > 5
           THEN WriteBucketsLen(
                    genBuckets(obj, nearestPrime(
                        Max((Len(g.buckets) * 4) \div 3, Len(g.buckets) + 1))).buckets)
           ELSE WriteBucketsLen(g.buckets)
           : g \in { genBuckets(obj, nearestPrime((Len(obj) * 4) \div 3)) } })

\* WriteValue
WriteValueLen(v) ==
    CASE v[1] = "array" -> WriteArrayLen(v[2])
      [] v[1] = "object" -> WriteObjectLen(v[2])
      [] OTHER -> [n |-> v[2], err |-> NoErr]

\* Write: the signature, then the value.
WriteLen(v) ==
    Only({ [n |-> Add64(U64(Len(fileSignature)), w.n), err |-> w.err]
           : w \in { WriteValueLen(v) } })

\* Scalars of 1 byte (nil), of 2^32 bytes and of 2^40 - 10 bytes (a string of
\* 2^40 - 17 bytes).
Blobs ==
    { << "blob", U64(1) >>,
      << "blob", << 0, 0, 0, 0, 1, 0, 0, 0 >> >>,
      << "blob", << 246, 255, 255, 255, 255, 0, 0, 0 >> >> }

\* The most elements of an array and entries of a map of SpecSizes.
MaxFanout == 3

\* The arrays and maps of blobs, and the arrays and maps of one of those.
SizeRoots ==
    Containers(Blobs, MaxFanout) \cup Containers(Containers(Blobs, MaxFanout), 1)

InitSizes ==
    /\ value \in SizeRoots
    /\ file = << >>
    /\ h = Nil
    /\ res = [err |-> NoErr]
    /\ op = "start"
    /\ nops = 0

\* Write(w, value)
DoWriteLen ==
    /\ op = "start"
    /\ res' = WriteLen(value)
    /\ op' = "Write"
    /\ UNCHANGED << value, file, h, nops >>

\* WriteArray(w, array, gobEncoder)
DoWriteArrayLen ==
    /\ op = "start"
    /\ value[1] = "array"
    /\ res' = WriteArrayLen(value[2])
    /\ op' = "WriteArray"
    /\ UNCHANGED << value, file, h, nops >>

\* WriteObject(w, obj, gobEncoder)
DoWriteObjectLen ==
    /\ op = "start"
    /\ value[1] = "object"
    /\ res' = WriteObjectLen(value[2])
    /\ op' = "WriteObject"
    /\ UNCHANGED << value, file, h, nops >>

NextSizes == DoWriteLen \/ DoWriteArrayLen \/ DoWriteObjectLen

SpecSizes == InitSizes /\ [][NextSizes]_vars

\* v and the values inside it, at every depth.
RECURSIVE ValuesIn(_)
ValuesIn(v) ==
    { v } \cup
    (CASE v[1] = "array" -> UNION { ValuesIn(v[2][i]) : i \in 1..Len(v[2]) }
       [] v[1] = "object" -> UNION { ValuesIn(v[2][i][2]) : i \in 1..Len(v[2]) }
       [] OTHER -> { })

\* Whether the max offset plus count entries of W bytes is below 256^W.
HoldsOffsets(maxOffset, count, W) == FitsBytes(Add64(maxOffset, U64(count * W)), W)

\* Whether no offset width up to 8 bytes holds the largest offset of the
\* container v.  The largest offset is taken from the data as the writer
\* lays it out; no value of the model has as many as 2^63 bytes.
TooLarge(v) ==
    LET maxOffset ==
            IF v[1] = "array" THEN elemsLen(v[2], 1, U64(0), U64(0)).maxOffset
            ELSE bucketsLen(genBuckets(v[2], nearestPrime((Len(v[2]) * 4) \div 3)).buckets,
                            1, U64(0), U64(0)).maxOffset
        count ==
            IF v[1] = "array" THEN Len(v[2])
            ELSE nearestPrime((Len(v[2]) * 4) \div 3)
    IN  \A W \in 1..8 : ~HoldsOffsets(maxOffset, count, W)

\* C21: when the writers fail.  Write, WriteArray and WriteObject return an
\* error exactly when some array or map of the value, the root or one inside
\* it at any depth, has a largest offset that no offset width up to 8 bytes
\* holds; the error of an array or map inside another is returned by the
\* writer of the outer one.
C21_WriterFailure ==
    op \in { "Write", "WriteArray", "WriteObject" } =>
        LET containers == { v \in ValuesIn(value) : v[1] \in { "array", "object" } }
        IN  /\ (res.err # NoErr) <=> \E v \in containers : TooLarge(v)
            /\ (\E v \in containers : WriteValueLen(v).err # NoErr) => res.err # NoErr

-----------------------------------------------------------------------------
(* Specification SpecMalformed: an array or a map is written and the       *)
(* offset width in its marker is then overwritten with one that no writer  *)
(* writes; the bytes are read with ReadArray, ReadObject, ReadValue and    *)
(* Object.Index.  readUintValue and readFixedUint also read bytes that     *)
(* start with a length byte no writer writes.  Variables as under          *)
(* SpecImpl; value is <<"bytes", b>> for bytes to be read only.            *)

\* The offset widths that no marker of a writer carries.
BadWidths == { 0 } \cup 9..15

\* The first bytes of a variable-length integer that stand for a length of
\* 9 and more: 0x80, 0xC8, 0xF6, 0xF7; alone and with nine bytes after them.
BadVarints ==
    { << b0 >> \o Rep(1, n) : b0 \in { 128, 200, 246, 247 }, n \in { 0, 9 } }

MalformedRoots == Containers({ Nil, << "string", << 98 >> >> }, 1)

InitMalformed ==
    /\ \/ /\ value \in MalformedRoots
          /\ file = << >>
          /\ op = "start"
       \/ /\ value \in { << "bytes", b >> : b \in BadVarints }
          /\ file = value[2]
          /\ op = "bytes"
    /\ h = [r |-> << >>, d |-> Nil, err |-> NoErr]
    /\ res = [err |-> NoErr]
    /\ nops = 0

\* The high half of the marker of the array or map written becomes W.
DoSetWidth(W) ==
    /\ op \in { "WriteArray", "WriteObject" }
    /\ res.err = NoErr
    /\ MarkerOffsetSize(file[1]) \notin BadWidths
    /\ file' = [file EXCEPT ![1] = newTypeMarker(MarkerType(file[1]), W)]
    /\ UNCHANGED << value, h, res, op, nops >>

\* ReadValue(r, recursive), r a reader at the start of the bytes
DoReadValueRoot(recursive, bufferSize) ==
    /\ op \in { "WriteArray", "WriteObject" }
    /\ res.err = NoErr
    /\ \E x \in { ReadValue(NewBufByteReadSeeker(file, 0, bufferSize), recursive) } :
           /\ h' = [r |-> x.r, d |-> Nil, err |-> x.err]
           /\ res' = [v |-> x.v, err |-> x.err]
    /\ op' = "ReadValue"
    /\ UNCHANGED << value, file, nops >>

\* readFixedUint(r, size), r a reader at the start of the bytes
DoReadFixedUint(size, bufferSize) ==
    /\ op = "bytes"
    /\ \E x \in { readFixedUint(NewBufByteReadSeeker(file, 0, bufferSize), size) } :
           res' = [v |-> x.v, err |-> x.err, size |-> size]
    /\ op' = "readFixedUint"
    /\ UNCHANGED << value, file, h, nops >>

NextMalformed ==
    \/ DoWriteArray
    \/ DoWriteObject
    \/ \E W \in BadWidths : DoSetWidth(W)
    \/ \E bufferSize \in ImplBufferSizes : DoReadArray(bufferSize)
    \/ \E bufferSize \in ImplBufferSizes : DoReadObject(bufferSize)
    \/ \E recursive \in BOOLEAN, bufferSize \in ImplBufferSizes :
           DoReadValueRoot(recursive, bufferSize)
    \/ \E key \in LookupKeys, recursive \in BOOLEAN : DoObjectIndex(key, recursive)
    \/ \E bufferSize \in ImplBufferSizes : DoReadUintValue(bufferSize)
    \/ \E size \in BadWidths, bufferSize \in ImplBufferSizes :
           DoReadFixedUint(size, bufferSize)

SpecMalformed == InitMalformed /\ [][NextMalformed]_vars

\* An error that the caller gets back: not nil, and not a panic.
Reported(err) == err # NoErr /\ err # Panic

\* C22: widths that no writer writes are reported as errors.  readUintValue
\* of a first byte 0x80..0xF7, readFixedUint of a size of 0 or 9..15, and
\* ReadArray, ReadObject, ReadValue and Object.Index of a container whose
\* marker carries an offset width of 0 or 9..15 return an error and do not
\* panic.
C22_MalformedWidths ==
    /\ op = "readUintValue" /\ file[1] \in 128..247 => Reported(res.err)
    /\ op = "readFixedUint" => Reported(res.err)
    /\ op \in { "ReadArray", "ReadObject", "ReadValue" }
       /\ MarkerOffsetSize(file[1]) \in BadWidths => Reported(res.err)
    /\ op = "Object.Index" /\ h.d[2].offsetSize \in BadWidths => Reported(res.err)

-----------------------------------------------------------------------------
(* The buffered reader's Seek, Read and ReadByte one call at a time, under *)
(* SpecSeek.                                                               *)

\* C23: on a bufByteReadSeeker in any state that Read, ReadByte and Seek
\* reach, Seek(0, io.SeekCurrent) returns bufOffset + bufRead and no error,
\* and leaves the reader as it was: the source is not sought, the buffer
\* keeps its bytes, bufOffset and bufRead keep their values.
C23_TellChangesNothing ==
    [][DoSeek(U64(0), SeekCurrent) =>
           /\ h' = h
           /\ res'.err = NoErr
           /\ res'.n = h.bufOffset + h.bufRead]_vars

\* Seek told the position of a reader that has read part of what it has
\* buffered: the source stands where the buffer was filled up to.
C23_ToldMidBuffer ==
    /\ op = "Seek"
    /\ res.err = NoErr
    /\ res.n = res.pos
    /\ h.bufRead > 0
    /\ Len(h.buf) > 0
    /\ h.upos = res.n + Len(h.buf)

\* C24: a Seek of the bufByteReadSeeker that returns no error and leaves the
\* source at another position than it found it leaves no buffered bytes:
\* the buffer is empty, bufOffset is the offset returned and bufRead is 0, so
\* that the next read fetches from the source at the offset returned.
C24_SeekEmptiesBuffer ==
    [][op' = "Seek" /\ res'.err = NoErr /\ h'.upos # h.upos =>
           /\ h'.buf = << >>
           /\ h'.bufOffset = res'.n
           /\ h'.bufRead = 0
           /\ h'.upos = res'.n]_vars

\* C25: bufOffset + bufRead is the logical position in every state that Read,
\* ReadByte and Seek reach: it is the source's position at construction, a
\* Read that returns n bytes adds n, a ReadByte adds 1 if it returns a byte and
\* nothing if it fails, a Seek without error makes it the offset returned
\* and a failed Seek leaves it.
C25_LogicalPosition ==
    /\ op = "start" => h.bufOffset + h.bufRead = h.upos
    /\ op = "Read" => h.bufOffset + h.bufRead = res.pos + res.n
    /\ op = "ReadByte" =>
           h.bufOffset + h.bufRead = res.pos + (IF res.err = NoErr THEN 1 ELSE 0)
    /\ op = "Seek" =>
           h.bufOffset + h.bufRead = (IF res.err = NoErr THEN res.n ELSE res.pos)

\* A ReadByte that failed at the end of the source, after the reader had been
\* moved by reads and by a Seek.
C25_FailedReadByte ==
    /\ op = "ReadByte"
    /\ res.err # NoErr
    /\ h.bufOffset > 0
    /\ h.bufRead > 0

-----------------------------------------------------------------------------
(* Specification SpecRehash: maps whose keys fall into one bucket are      *)
(* written with WriteObject and read with ReadObject.                      *)
(*   value  the map                                                        *)
(*   file   the bytes written                                              *)
(*   h      [r, d, err]: the reader, and the descriptor and the error that *)
(*          ReadObject returned                                            *)

\* "a", "dr", "fy", "lv", "pi", "rp": six keys whose hashes are equal modulo
\* 11 and modulo 17.
RehashKeys ==
    << << 97 >>, << 100, 114 >>, << 102, 121 >>, << 108, 118 >>, << 112, 105 >>,
       << 114, 112 >> >>

\* "j": its hash is that of the RehashKeys modulo 11 and another modulo 17.
OtherKey == << 106 >>

\* The maps of the first n RehashKeys, and the map of the first five of them
\* and OtherKey; every value is nil.
RehashRoots ==
    { << "object", [i \in 1..n |-> << RehashKeys[i], Nil >>] >> :
        n \in 0..Len(RehashKeys) }
    \cup { << "object", [i \in 1..Len(RehashKeys) |->
                            << IF i = Len(RehashKeys) THEN OtherKey ELSE RehashKeys[i],
                               Nil >>] >> }

InitRehash ==
    /\ value \in RehashRoots
    /\ file = << >>
    /\ h = [r |-> << >>, d |-> Nil, err |-> NoErr]
    /\ res = [err |-> NoErr]
    /\ op = "start"
    /\ nops = 0

NextRehash ==
    \/ DoWriteObject
    \/ \E bufferSize \in ImplBufferSizes : DoReadObject(bufferSize)

SpecRehash == InitRehash /\ [][NextRehash]_vars

\* The number of entries of obj whose key hashes to bucket i of bucketCount,
\* for every i.
BucketSizes(obj, bucketCount) ==
    [i \in 0..(bucketCount - 1) |->
        Cardinality({ j \in 1..Len(obj) :
                        Mod64(stringHash(obj[j][1]), bucketCount) = i })]

\* The list lengths of the buckets of a map read from r.
WrittenSizes(r, obj) ==
    [i \in 0..(obj.bucketCount - 1) |-> bucketAt(r, obj, i).v]

RECURSIVE SumFrom(_, _, _)
\* The sum of the sizes from bucket i on that are over 1.
SumFrom(sizes, i, n) ==
    IF i >= n THEN 0
    ELSE (IF sizes[i] > 1 THEN sizes[i] ELSE 0) + SumFrom(sizes, i + 1, n)

\* The average size of the buckets of more than one entry is at most limit.
AverageAtMost(sizes, limit) ==
    SumFrom(sizes, 0, Cardinality(DOMAIN sizes))
        <= limit * Cardinality({ i \in DOMAIN sizes : sizes[i] > 1 })

\* C26: the map that WriteObject wrote has B0 = nearestPrime(len * 4 / 3)
\* buckets or B1 = nearestPrime(max(B0 * 4 / 3, B0 + 1)) buckets; it has B1
\* only when the average size of the buckets of more than one entry over B0
\* buckets exceeds 5; B1 is more than B0; and in the buckets written the
\* average size of the buckets of more than one entry is at most 5.
C26_RehashPolicy ==
    op = "ReadObject" /\ h.err = NoErr =>
        LET obj == value[2]
            B0 == nearestPrime((Len(obj) * 4) \div 3)
            B1 == nearestPrime(Max((B0 * 4) \div 3, B0 + 1))
        IN  /\ h.d[2].bucketCount \in { B0, B1 }
            /\ h.d[2].bucketCount = B1 => ~AverageAtMost(BucketSizes(obj, B0), 5)
            /\ B1 > B0
            /\ WrittenSizes(h.r, h.d[2]) = BucketSizes(obj, h.d[2].bucketCount)
            /\ AverageAtMost(WrittenSizes(h.r, h.d[2]), 5)

-----------------------------------------------------------------------------
(* The entries of the buckets that WriteObject wrote, under SpecImpl.      *)

RECURSIVE EntriesExact(_, _)
RECURSIVE BucketsExact(_, _, _)

\* The bucket entries from r on, left of them to go, are skipped as
\* Object.Index skips them: the key and the value size are read and the
\* reader is moved on by the value size.  ok says that every skip ended
\* where ReadValue of the value ends, and that the entries of a value that is
\* a map are exact in turn; r is the reader after the last entry.
EntriesExact(r, left) ==
    IF left = 0 THEN [ok |-> TRUE, r |-> r]
    ELSE Only({
        IF k.err # NoErr THEN [ok |-> FALSE, r |-> k.r]
        ELSE Only({
            IF size.err # NoErr THEN [ok |-> FALSE, r |-> size.r]
            ELSE Only({
                IF skip.err # NoErr \/ e.err # NoErr \/ d.err # NoErr
                   \/ LogicalPos(e.r) # skip.n
                   \/ (d.v[1] = "*Object" /\ ~BucketsExact(d.r, d.v[2], skip.n))
                THEN [ok |-> FALSE, r |-> skip.r]
                ELSE EntriesExact(skip.r, left - 1)
                : skip \in { RSeek(size.r, size.v, SeekCurrent) },
                  e \in { ReadValue(size.r, TRUE) },
                  d \in { ReadValue(size.r, FALSE) } })
            : size \in { readUintValue(k.r) } })
        : k \in { readStringValue(r) } })

\* Every bucket of the map obj, which ends at the position end, is exact: its
\* entries are, and after its last entry the reader stands at the list
\* length of the next bucket, or at end after the last bucket.  A list of
\* fewer than 128 entries has a length of one byte.
BucketsExact(r, obj, end) ==
    \A i \in 0..(obj.bucketCount - 1) :
        \E b \in { bucketAt(r, obj, i) } :
            /\ b.err = NoErr
            /\ b.v < 128
            /\ \E w \in { EntriesExact(b.r, b.v) } :
                   /\ w.ok
                   /\ LogicalPos(w.r) =
                          IF i = obj.bucketCount - 1 THEN end
                          ELSE LogicalPos(bucketAt(r, obj, i + 1).r) - 1

\* C27: in every map that WriteObject wrote, the value size of every entry is
\* the number of bytes of the value after it: a reader that has read an
\* entry's key and value size and seeks forward by the value size, as
\* Object.Index does, stands where reading the value ends, which is the key
\* length of the next entry of the bucket or the end of the bucket, for
\* values of every type and for the maps among them.
C27_ValueSizeExact ==
    op = "ReadObject" /\ h.err = NoErr =>
        BucketsExact(h.r, h.d[2], Len(file))

\* A map was written with a bucket of two entries, the first of which has a
\* map as its value, and the second entry is what Object.Index returned
\* after it skipped the first.
C27_SkippedNestedMap ==
    /\ op = "Object.Index"
    /\ h.r.size = 0
    /\ res.err = NoErr
    /\ res.v # Nil
    /\ \E i \in 0..(h.d[2].bucketCount - 1) :
         \E b \in { bucketAt(res.before, h.d[2], i) } :
             /\ b.v = 2
             /\ readStringValue(b.r).v # res.key
             /\ ReadValue(readUintValue(readStringValue(b.r).r).r, FALSE).v[1] = "*Object"
             /\ Mod64(stringHash(res.key), h.d[2].bucketCount) = i

-----------------------------------------------------------------------------
(* A container as the root and as an entry of another, under SpecImpl.     *)

\* What is read from the bytes of v alone, v written at position 0 of a
\* source of its own.
RootDecode(v, bufferSize) ==
    ReadValue(NewBufByteReadSeeker(WriteValue(v).b, 0, bufferSize), TRUE)

\* The entry of the value written that the last Index selected, nil if there
\* is none.
Selected ==
    IF op = "Array.Index"
    THEN IF IsNeg(res.i) \/ ~SLess(res.i, U64(Len(value[2]))) THEN Nil
         ELSE value[2][ToNat(res.i) + 1]
    ELSE EntryOf(value[2], res.key, 1)

RECURSIVE TableOffsets(_, _, _, _)
\* The entries i..n-1 of the offset table of the descriptor d.
TableOffsets(r, d, i, n) ==
    IF i >= n THEN << >>
    ELSE << ToNat(readFixedUint(RSeek(r, U64(d.pos + i * d.offsetSize), SeekStart).r,
                                d.offsetSize).v) >>
         \o TableOffsets(r, d, i + 1, n)

\* The number of entries of the offset table of a descriptor.
TableCount(d) == IF d[1] = "*Array" THEN d[2].length ELSE d[2].bucketCount

\* C28: the offsets of an array or map written start from the first byte of
\* the offset table: the first is count * offsetSize and each is more than
\* the one before.  An array or map that is an element of an array or a
\* value of a map is read by Index(recursive) as the value that its bytes
\* give when they are read alone from position 0, through a reader of the
\* same buffer size.
C28_PositionIndependence ==
    /\ op \in { "ReadArray", "ReadObject" } /\ h.err = NoErr =>
           LET o == TableOffsets(NewBufByteReadSeeker(file, 0, 0), h.d[2], 0,
                                 TableCount(h.d))
           IN  /\ Len(o) > 0 => o[1] = TableCount(h.d) * h.d[2].offsetSize
               /\ \A i \in 1..(Len(o) - 1) : o[i] < o[i + 1]
    /\ op \in { "Array.Index", "Object.Index" } /\ res.recursive
       /\ Selected[1] \in { "array", "object" } =>
           /\ res.err = NoErr
           /\ \A o \in Orderings(Selected) :
                  \E d \in { RootDecode(o, h.r.size) } : d.err = NoErr /\ d.v = res.v

-----------------------------------------------------------------------------
(* Specification SpecHistory: a value is written with Write, the bytes are *)
(* opened with New, the instance is queried with Query or QueryGob, and    *)
(* then queried again.  Variables as under Spec.                           *)

\* The most calls of Query and QueryGob on one instance.
MaxHistory == 2

\* The values written: the containers of at most one entry over Elems.
HistoryRoots == Containers(Elems, 1)

\* {"1": "b"}
WideRoot == << "object", << << << 49 >>, << "string", << 98 >> >> >> >> >>

\* A file of WideRoot whose offsets are 8 bytes wide: the signature, the
\* marker, the bucket count 2, the offsets of the two buckets from the start
\* of the table, the bucket of "1" and the empty bucket.
WideFile ==
    LET v == WriteValue(WideRoot[2][1][2]).b
        bucket0 == writeUintValue(U64(1)) \o writeBinaryValue(WideRoot[2][1][1])
                   \o writeUintValue(U64(Len(v))) \o v
        bucket1 == writeUintValue(U64(0))
    IN  fileSignature
        \o << newTypeMarker(typeObject, 8) >>
        \o writeUintValue(U64(2))
        \o writeFixedUint(U64(2 * 8), 8).b
        \o writeFixedUint(U64(2 * 8 + Len(bucket0)), 8).b
        \o bucket0
        \o bucket1

\* Either a value is about to be written, or the file is WideFile.
InitHistory ==
    /\ h = Nil
    /\ res = [err |-> NoErr]
    /\ nops = 0
    /\ \/ /\ value \in HistoryRoots
          /\ file = << >>
          /\ op = "start"
       \/ /\ value = WideRoot
          /\ file = WideFile
          /\ op = "written"

\* h.Query(path...) on an instance that has answered a query before
DoQueryAgain(path) ==
    /\ op \in { "queried", "gob", "queried again" }
    /\ h[1] = "*Hashive"
    /\ nops < MaxHistory
    /\ \E q \in { Query(h[2], path) } :
           /\ res' = [v |-> q.v, err |-> q.err, path |-> path]
           /\ h' = << "*Hashive", [h[2] EXCEPT !.r = q.r] >>
    /\ op' = "queried again"
    /\ nops' = nops + 1
    /\ UNCHANGED << value, file >>

NextHistory ==
    \/ DoWrite
    \/ \E readBufferSize \in BufferSizes : DoNew(readBufferSize)
    \/ \E path \in Paths : DoQuery(path)
    \/ \E path \in Paths : DoQueryGob(path)
    \/ \E path \in Paths : DoQueryAgain(path)

SpecHistory == InitHistory /\ [][NextHistory]_vars

\* The instance as New returned it for the bytes written, with a reader of
\* the buffer size that the instance has.
FreshInstance ==
    CHOOSE n \in { New(file, b).h : b \in BufferSizes } :
        n[1] = "*Hashive" /\ n[2].r.size = h[2].r.size

-----------------------------------------------------------------------------
(* The bucket count of the maps that WriteObject wrote, under SpecImpl.    *)

\* The map of the descriptor d has at least two buckets, and its offset
\* table has an entry for each: the first bucket begins where bucketCount
\* entries end, and every entry is the offset of a bucket inside the file.
TableWhole(d) ==
    /\ d.bucketCount >= 2
    /\ \E o \in { TableOffsets(NewBufByteReadSeeker(file, 0, 0), d, 0, d.bucketCount) } :
           /\ o[1] = d.bucketCount * d.offsetSize
           /\ \A i \in 1..Len(o) : d.pos + o[i] < Len(file)

\* C30: every map that WriteObject wrote, the empty map and the maps that are
\* values of others among them, has at least 2 buckets and an offset table of
\* as many entries, and Object.Index on it does not divide by zero and finds
\* the bucket of the key's hash through the table.
C30_BucketCount ==
    /\ op = "ReadObject" /\ h.err = NoErr => TableWhole(h.d[2])
    /\ op \in { "Array.Index", "Object.Index" } /\ res.err = NoErr
       /\ res.v[1] = "*Object" => TableWhole(res.v[2])
    /\ op = "Object.Index" =>
           /\ res.err # Panic
           /\ bucketAt(NewBufByteReadSeeker(file, 0, 0), h.d[2],
                       Mod64(stringHash(res.key), h.d[2].bucketCount)).err = NoErr

\* Object.Index was called on the empty map that WriteObject wrote.
C30_EmptyMapIndexed ==
    /\ op = "Object.Index"
    /\ value = << "object", << >> >>
    /\ res.err = ErrNotFound

=============================================================================
